---------------------------- MODULE Spec2Model ----------------------------
(***************************************************************************)
(* BigTechNews: the scraper's relevance scoring, categorisation,           *)
(* deduplication, period windows and digest assembly (src/scraper/index.js *)
(* with the lexicon of src/scraper/sources.js), as a state machine of one  *)
(* run of main().                                                          *)
(*                                                                         *)
(* Text is modelled by TLA+ strings over printable ASCII; Len, \o, SubSeq, *)
(* Head and Tail act on them character by character.  Dates are local      *)
(* time without daylight saving (the CI runs in UTC): a Date is            *)
(* [day |-> days since 1970-01-01, ms |-> millisecond of the day].         *)
(***************************************************************************)
EXTENDS Integers, Sequences, FiniteSets, TLC

\***************************************************************************
\* Strings (the JavaScript String methods the scraper uses)
\***************************************************************************

\* Printable ASCII in code order: codes 32 (space) to 95, and codes 97 to 126
\* (code 96, the grave accent, occurs in no text of the model).
AsciiLow ==
  " !\"#$%&'()*+,-./0123456789:;<=>?@ABCDEFGHIJKLMNOPQRSTUVWXYZ[\\]^_"
AsciiHigh ==
  "abcdefghijklmnopqrstuvwxyz{|}~"

\* The letters A-Z, a-z and the digits 0-9 (codes 65..90, 97..122, 48..57).
Uppercase == { SubSeq(AsciiLow, n - 31, n - 31) : n \in 65..90 }
Lowercase == { SubSeq(AsciiHigh, n - 96, n - 96) : n \in 97..122 }
DecimalDigits == { SubSeq(AsciiLow, n - 31, n - 31) : n \in 48..57 }

\* String.fromCharCode(n)
fromCharCode(n) ==
  IF n < 96 THEN SubSeq(AsciiLow, n - 31, n - 31) ELSE SubSeq(AsciiHigh, n - 96, n - 96)

\* UTF-16 code unit of a character.
CodeUnits == (32..95) \cup (97..126)
charCodeAt(c) == CHOOSE n \in CodeUnits : fromCharCode(n) = c

lowerChar(c) ==
  IF c \in Uppercase THEN fromCharCode(charCodeAt(c) + 32) ELSE c

\* s.toLowerCase(), computed by halves to keep the recursion shallow.
RECURSIVE toLowerCase(_)
toLowerCase(s) ==
  IF Len(s) = 0 THEN ""
  ELSE IF Len(s) = 1 THEN lowerChar(s)
  ELSE LET h == Len(s) \div 2
       IN  toLowerCase(SubSeq(s, 1, h)) \o toLowerCase(SubSeq(s, h + 1, Len(s)))

Min(a, b) == IF a <= b THEN a ELSE b
Max(a, b) == IF a >= b THEN a ELSE b

\* The string from from on, whatever to is.
untruncated(s, from, to) == SubSeq(s, from + 1, Len(s))

\* s.substring(from, to) with 0-based from, exclusive to, clamped to the length.
substring(s, from, to) == SubSeq(s, from + 1, Min(to, Len(s)))

\* s.slice(-n): the last n characters.
sliceLast(s, n) == SubSeq(s, Max(1, Len(s) - n + 1), Len(s))

\* text.includes(term)
includes(text, term) ==
  \E i \in 1..(Len(text) - Len(term) + 1) : SubSeq(text, i, i + Len(term) - 1) = term

isDigit(c) == c \in DecimalDigits
isLowerAlnum(c) == c \in Lowercase \/ isDigit(c)
\* \w of a regular expression
isWordChar(c) == c \in Uppercase \/ isLowerAlnum(c) \/ c = "_"

\* Decimal digits of a natural number: String(n) and template literals.
RECURSIVE String(_)
String(n) ==
  IF n < 10 THEN fromCharCode(48 + n) ELSE String(n \div 10) \o fromCharCode(48 + (n % 10))

\* n written with at least two digits (date-fns tokens MM, dd, yy).
pad2(n) == IF n < 10 THEN "0" \o String(n) ELSE String(n)

\***************************************************************************
\* Regular expressions of EXCLUDED_PATTERNS: a pattern is a sequence of
\* atoms; all patterns carry the flag i.
\***************************************************************************

Lit(s) == [t |-> "lit", s |-> s]        \* literal characters
Opt(c) == [t |-> "opt", s |-> c]        \* c?
WordBoundary == [t |-> "wb", s |-> ""]  \* \b
Digits == [t |-> "digits", s |-> ""]    \* \d+

\* \b at position i (between s[i-1] and s[i]).
atWordBoundary(s, i) ==
  LET before == i > 1 /\ isWordChar(SubSeq(s, i - 1, i - 1))
      after == i <= Len(s) /\ isWordChar(SubSeq(s, i, i))
  IN  before # after

\* The atoms p[k..] match s from position i on (s already lower-cased:
\* flag i, ASCII).
RECURSIVE matchHere(_, _, _, _)
matchHere(p, k, s, i) ==
  IF k > Len(p) THEN TRUE
  ELSE LET a == p[k] IN
    CASE a.t = "lit" ->
           /\ i + Len(a.s) - 1 <= Len(s)
           /\ SubSeq(s, i, i + Len(a.s) - 1) = a.s
           /\ matchHere(p, k + 1, s, i + Len(a.s))
      [] a.t = "opt" ->
           \/ /\ i <= Len(s)
              /\ SubSeq(s, i, i) = a.s
              /\ matchHere(p, k + 1, s, i + 1)
           \/ matchHere(p, k + 1, s, i)
      [] a.t = "wb" -> atWordBoundary(s, i) /\ matchHere(p, k + 1, s, i)
      [] a.t = "digits" ->
           \E n \in 1..(Len(s) - i + 1) :
             /\ \A j \in i..(i + n - 1) : isDigit(SubSeq(s, j, j))
             /\ matchHere(p, k + 1, s, i + n)

\* pattern.test(text)
test(pattern, text) ==
  LET s == toLowerCase(text)
  IN  \E i \in 1..(Len(s) + 1) : matchHere(pattern, 1, s, i)

\***************************************************************************
\* Lexicon (src/scraper/sources.js)
\***************************************************************************

HIGH_IMPACT_KEYWORDS ==
  <<
    "openai", "anthropic", "chatgpt", "gpt-5", "claude", "gemini", "llama",
    "artificial general intelligence", "agi", "superintelligence", "acquisition",
    "acquires", "merger", "billion dollar", "ipo", "layoffs", "antitrust", "monopoly",
    "regulation", "ftc", "doj", "eu commission", "ceo", "sam altman", "elon musk",
    "mark zuckerberg", "sundar pichai", "satya nadella", "tim cook", "jensen huang",
    "dario amodei", "breakthrough", "revolutionary", "first ever", "world record",
    "quantum", "fusion", "robotaxi", "humanoid robot"
  >>

BIG_TECH_COMPANIES ==
  <<
    "google", "alphabet", "microsoft", "apple", "amazon", "meta", "facebook", "nvidia",
    "openai", "anthropic", "tesla", "spacex", "intel", "amd", "qualcomm", "broadcom",
    "tsmc", "samsung", "netflix", "uber", "bytedance", "tiktok", "baidu", "xiaomi",
    "huawei", "oracle", "salesforce", "adobe", "coinbase", "stripe", "waymo", "cruise",
    "rivian", "byd", "foxconn", "arm", "softbank", "palantir", "coreweave",
    "perplexity", "mistral", "cohere", "stability ai", "midjourney", "xai",
    "neuralink", "figure ai", "boston dynamics"
  >>

RELEVANT_TOPICS ==
  <<
    "artificial intelligence", "machine learning", "deep learning", "neural network",
    "large language model", "llm", "generative ai", "foundation model", "ai safety",
    "alignment", "ai regulation", "semiconductor", "chip", "gpu", "data center",
    "supercomputer", "blackwell", "hopper", "h100", "b200", "tpu",
    "autonomous vehicle", "self-driving", "robotaxi", "humanoid robot", "automation",
    "optimus", "starlink", "starship", "rocket launch", "satellite", "antitrust",
    "regulation", "lawsuit", "ipo", "acquisition", "billion", "valuation",
    "funding round", "layoffs", "bitcoin", "stablecoin", "crypto regulation"
  >>

EXCLUDED_PATTERNS ==
  <<
    <<Lit("deal")>>, <<WordBoundary, Lit("sale"), WordBoundary>>, <<Lit("discount")>>,
    <<Lit("save $")>>, <<Lit("% off")>>, <<Lit("prime day")>>, <<Lit("black friday")>>,
    <<Lit("best buy")>>, <<Lit("walmart")>>, <<Lit("cheap")>>, <<Lit("budget")>>,
    <<Lit("price drop")>>, <<Lit("price cut")>>, <<WordBoundary, Lit("review:")>>,
    <<Lit("hands-on")>>, <<Lit("unboxing")>>,
    <<WordBoundary, Lit("vs"), Opt("."), WordBoundary>>, <<Lit("compared")>>,
    <<Lit("buying guide")>>, <<Lit("best phones")>>, <<Lit("best laptops")>>,
    <<Lit("best tv")>>, <<Lit("best headphones")>>, <<Lit("best wireless")>>,
    <<Lit("top "), Digits, Lit(" ")>>, <<Digits, Lit(" best ")>>, <<Lit("how to")>>,
    <<Lit("tips for")>>, <<Lit("guide to")>>, <<Lit("tutorial")>>,
    <<Lit("step by step")>>, <<Lit("ways to")>>, <<Lit("things you")>>,
    <<Lit("everything you need")>>, <<Lit("now available")>>, <<Lit("rolling out")>>,
    <<Lit("coming soon")>>, <<Lit("early access")>>, <<Lit("gets a new")>>,
    <<Lit("adds support")>>, <<Lit("game review")>>, <<Lit("movie review")>>,
    <<Lit("tv show")>>, <<Lit("playlist")>>, <<Lit("recipe")>>, <<Lit("fitness")>>,
    <<Lit("wellness")>>, <<Lit("you need to")>>, <<Lit("you should")>>,
    <<Lit("why you")>>, <<Lit("don't miss")>>, <<Lit("must have")>>,
    <<WordBoundary, Lit("secret"), WordBoundary>>,
    <<WordBoundary, Lit("hack"), WordBoundary>>,
    <<WordBoundary, Lit("trick"), WordBoundary>>, <<Lit("won't believe")>>,
    <<Lit("this is why")>>
  >>

CATEGORIES ==
  <<
    [key |-> "ai",
     keywords |-> <<
       "ai", "artificial intelligence", "machine learning", "llm", "chatgpt", "claude",
       "gemini", "openai", "anthropic", "gpt", "neural", "deep learning",
       "generative ai", "copilot", "perplexity", "midjourney", "stable diffusion",
       "foundation model", "training", "inference" >>],
    [key |-> "chips_cloud",
     keywords |-> <<
       "nvidia", "amd", "intel", "qualcomm", "tsmc", "samsung chip", "semiconductor",
       "processor", "gpu", "cpu", "aws", "azure", "gcp", "cloud", "data center",
       "blackwell", "hopper", "coreweave", "broadcom", "arm" >>],
    [key |-> "robotics",
     keywords |-> <<
       "robot", "robotics", "optimus", "humanoid", "automation", "boston dynamics",
       "figure", "agility", "warehouse robot" >>],
    [key |-> "ev_autonomous",
     keywords |-> <<
       "tesla", "ev", "electric vehicle", "waymo", "cruise", "autonomous",
       "self-driving", "robotaxi", "rivian", "lucid", "byd", "nio", "xpeng", "battery",
       "charging" >>],
    [key |-> "space",
     keywords |-> <<
       "spacex", "starlink", "starship", "nasa", "rocket", "satellite", "orbit",
       "blue origin", "kuiper", "launch" >>],
    [key |-> "regulation",
     keywords |-> <<
       "antitrust", "regulation", "ftc", "doj", "eu", "gdpr", "privacy", "lawsuit",
       "fine", "compliance", "congress", "senate", "bill", "monopoly" >>],
    [key |-> "business",
     keywords |-> <<
       "acquisition", "merger", "ipo", "funding", "valuation", "layoff", "earnings",
       "revenue", "billion", "ceo", "executive" >>],
    [key |-> "crypto",
     keywords |-> <<
       "bitcoin", "ethereum", "crypto", "blockchain", "stablecoin", "coinbase",
       "binance", "sec crypto", "crypto regulation" >>]
  >>

MIN_RELEVANCE_SCORE == 3
DEFAULT_WEEKS_TO_BACKFILL == 4

\* JavaScript null (the category of an article no category matches).
null == "<null>"

\***************************************************************************
\* Scorer
\***************************************************************************

\* Array.prototype.includes
arrayIncludes(arr, x) == \E i \in 1..Len(arr) : arr[i] = x

\* arr.slice(0, n)
slice(arr, n) == SubSeq(arr, 1, Min(n, Len(arr)))

shouldExclude(text) ==
  \E k \in 1..Len(EXCLUDED_PATTERNS) : test(EXCLUDED_PATTERNS[k], text)

\* The entries of a lexicon table that text.includes(entry.toLowerCase()), in
\* table order: the iterations of a scoring loop whose condition holds.
matched(table, text) ==
  SelectSeq(table, LAMBDA term : includes(text, toLowerCase(term)))

\* reasons.push(term) for each term in turn, present or not.
pushAll(reasons, terms) == reasons \o terms

\* if (!reasons.includes(term)) reasons.push(term), for each term in turn
RECURSIVE pushNew(_, _)
pushNew(reasons, terms) ==
  IF terms = <<>> THEN reasons
  ELSE pushNew(IF arrayIncludes(reasons, Head(terms)) THEN reasons
               ELSE Append(reasons, Head(terms)),
               Tail(terms))

\* calculateRelevance past the exclusion test: the four scoring loops and the
\* priority bonus.
scoreOfTerms(article) ==
  LET \* companies, keywords, topics: the terms found in text, per table;
      \* inTitle: the companies found in the title
      tally(companies, keywords, topics, inTitle) ==
        [score |-> 2 * Len(companies) + 3 * Len(keywords) + Len(topics)
                   + (IF article.priority = 1 THEN 1 ELSE 0) + 2 * Len(inTitle),
         reasons |-> slice(pushNew(pushNew(companies, keywords), topics), 5)]
      scan(title, text) ==
        tally(matched(BIG_TECH_COMPANIES, text), matched(HIGH_IMPACT_KEYWORDS, text),
              matched(RELEVANT_TOPICS, text), matched(BIG_TECH_COMPANIES, title))
      texts(title, description) == scan(title, title \o " " \o description)
  IN  texts(toLowerCase(article.title),
            substring(toLowerCase(article.description), 0, 500))

\* A scorer that looks for the exclusion patterns in the description too.
calculateRelevanceAnyText(article) ==
  IF shouldExclude(article.title \o " " \o article.description)
  THEN [score |-> 0, reasons |-> <<"excluded">>]
  ELSE scoreOfTerms(article)

calculateRelevance(article) ==
  IF shouldExclude(article.title)
  THEN [score |-> 0, reasons |-> <<"excluded">>]
  ELSE scoreOfTerms(article)

\***************************************************************************
\* Categorizer
\***************************************************************************

\* Number of the category's keywords found in text (the inner loop).
keywordHits(text, keywords) == Len(matched(keywords, text))

\* A loop in which a later category takes over from an equal one.
RECURSIVE categoryLoopLastBest(_, _, _)
categoryLoopLastBest(text, k, best) ==
  IF k > Len(CATEGORIES) THEN best
  ELSE LET score == keywordHits(text, CATEGORIES[k].keywords) IN
    categoryLoopLastBest(text, k + 1,
      IF score >= best.bestScore /\ score > 0
      THEN [bestCategory |-> CATEGORIES[k].key, bestScore |-> score]
      ELSE best)

\* for (const [categoryKey, category] of Object.entries(CATEGORIES))
RECURSIVE categoryLoop(_, _, _)
categoryLoop(text, k, best) ==
  IF k > Len(CATEGORIES) THEN best
  ELSE LET score == keywordHits(text, CATEGORIES[k].keywords) IN
    categoryLoop(text, k + 1,
      IF score > best.bestScore
      THEN [bestCategory |-> CATEGORIES[k].key, bestScore |-> score]
      ELSE best)

categorizeArticle(article) ==
  LET text == toLowerCase(article.title \o " " \o article.description)
  IN  categoryLoop(text, 1, [bestCategory |-> null, bestScore |-> 0]).bestCategory

\***************************************************************************
\* Deduplicator
\***************************************************************************

\* s.replace(/[^a-z0-9\s]/g, ''), computed by halves.
RECURSIVE stripNonAlnum(_)
stripNonAlnum(s) ==
  IF Len(s) = 0 THEN ""
  ELSE IF Len(s) = 1 THEN (IF isLowerAlnum(s) \/ s = " " THEN s ELSE "")
  ELSE LET h == Len(s) \div 2
       IN  stripNonAlnum(SubSeq(s, 1, h)) \o stripNonAlnum(SubSeq(s, h + 1, Len(s)))

\* s.split(/\s+/): the maximal runs of non-space characters in order, with an
\* empty piece before a leading and after a trailing run of spaces.
split(s) ==
  LET isSpace(i) == SubSeq(s, i, i) = " "
      positions == [i \in 1..Len(s) |-> i]
      starts == SelectSeq(positions, LAMBDA i : ~isSpace(i) /\ (i = 1 \/ isSpace(i - 1)))
      endOf(i) == CHOOSE j \in i..Len(s) :
                    /\ \A m \in i..j : ~isSpace(m)
                    /\ (j = Len(s) \/ isSpace(j + 1))
      pieces == [k \in 1..Len(starts) |-> SubSeq(s, starts[k], endOf(starts[k]))]
  IN  IF Len(s) = 0 THEN <<"">>
      ELSE (IF isSpace(1) THEN <<"">> ELSE <<>>)
           \o pieces
           \o (IF isSpace(Len(s)) THEN <<"">> ELSE <<>>)

\* a < b in the order of Array.prototype.sort() without a comparator
\* (strings by UTF-16 code units).
RECURSIVE strLess(_, _)
strLess(a, b) ==
  IF b = "" THEN FALSE
  ELSE IF a = "" THEN TRUE
  ELSE IF Head(a) = Head(b) THEN strLess(Tail(a), Tail(b))
  ELSE charCodeAt(Head(a)) < charCodeAt(Head(b))

\* words.sort(): insertion into a sorted sequence, equal elements kept in order.
RECURSIVE insertWord(_, _)
insertWord(sorted, w) ==
  IF sorted = <<>> THEN <<w>>
  ELSE IF strLess(w, Head(sorted)) THEN <<w>> \o sorted
  ELSE <<Head(sorted)>> \o insertWord(Tail(sorted), w)

RECURSIVE sortWords(_)
sortWords(words) ==
  IF words = <<>> THEN <<>>
  ELSE insertWord(sortWords(SubSeq(words, 1, Len(words) - 1)), words[Len(words)])

\* words.join('|')
RECURSIVE join(_)
join(words) ==
  IF words = <<>> THEN ""
  ELSE IF Len(words) = 1 THEN words[1]
  ELSE words[1] \o "|" \o join(Tail(words))

longerThan3(w) == Len(w) > 3

\* A signature of the first three sorted words.
signatureOfThree(title) ==
  join(slice(sortWords(SelectSeq(split(stripNonAlnum(toLowerCase(title))), longerThan3)), 3))

\* The signature deduplicateArticles derives from a title.
signature(title) ==
  join(slice(sortWords(SelectSeq(split(stripNonAlnum(toLowerCase(title))), longerThan3)), 5))

\***************************************************************************
\* Dates: the JavaScript Date methods and the date-fns functions used.
\* A Date is [day |-> days since 1970-01-01, ms |-> millisecond of the day];
\* an Invalid Date (what parseISO makes of an unparseable string) has ms = -1.
\***************************************************************************

MsPerDay == 24 * 60 * 60 * 1000
LastMs == MsPerDay - 1          \* 23:59:59.999

InvalidDate == [day |-> 0, ms |-> -1]
isValid(date) == date.ms >= 0

\* Day number of the civil date (y, m, d), m in 1..12; d may leave the month.
\* The year starts in March: yy is the year, mp the month counted from March.
daysFromCivil(y, m, d) ==
  LET days(yy, mp) ==
        (yy \div 400) * 146097
        + (yy % 400) * 365 + (yy % 400) \div 4 - (yy % 400) \div 100
        + (153 * mp + 2) \div 5 + d - 1
        - 719468
  IN  days(IF m <= 2 THEN y - 1 ELSE y, IF m > 2 THEN m - 3 ELSE m + 9)

\* Civil date [y, m, d] of a day number, m in 1..12: era is the 400-year
\* cycle, doe the day of the era, yoe the year of the era, doy the day of the
\* year that starts in March, mp the month counted from March.
civilFromDays(z) ==
  LET ofMp(era, yoe, doy, mp) ==
        [y |-> yoe + era * 400 + (IF mp < 10 THEN 0 ELSE 1),
         m |-> IF mp < 10 THEN mp + 3 ELSE mp - 9,
         d |-> doy - (153 * mp + 2) \div 5 + 1]
      ofDoy(era, yoe, doy) == ofMp(era, yoe, doy, (5 * doy + 2) \div 153)
      ofYoe(era, doe, yoe) ==
        ofDoy(era, yoe, doe - (365 * yoe + yoe \div 4 - yoe \div 100))
      ofDoe(era, doe) ==
        ofYoe(era, doe, (doe - doe \div 1460 + doe \div 36524 - doe \div 146096) \div 365)
  IN  ofDoe((z + 719468) \div 146097, (z + 719468) % 146097)

getFullYear(date) == civilFromDays(date.day).y
getMonth(date) == civilFromDays(date.day).m - 1      \* 0 = January
getDate(date) == civilFromDays(date.day).d
getDay(date) == ((date.day + 4) % 7)                 \* 0 = Sunday

\* new Date(year, monthIndex, day) at 00:00:00.000; monthIndex and day may
\* overflow, as in setMonth and setDate.
newDate(year, monthIndex, day) ==
  [day |-> daysFromCivil(year + (monthIndex \div 12), (monthIndex % 12) + 1, day), ms |-> 0]

\* date.setDate(n): the n-th day of date's month, time of day kept.
setDate(date, n) ==
  [day |-> newDate(getFullYear(date), getMonth(date), n).day, ms |-> date.ms]

\* a <= b as instants
dateLE(a, b) == a.day < b.day \/ (a.day = b.day /\ a.ms <= b.ms)

startOfDay(date) == [day |-> date.day, ms |-> 0]
endOfDay(date) == [day |-> date.day, ms |-> LastMs]

\* startOfWeek(date, { weekStartsOn: 1 })
startOfWeek(date) ==
  [day |-> date.day - ((IF getDay(date) < 1 THEN 7 ELSE 0) + getDay(date) - 1), ms |-> 0]

\* endOfWeek(date, { weekStartsOn: 1 })
endOfWeek(date) ==
  [day |-> date.day + ((IF getDay(date) < 1 THEN -7 ELSE 0) + 6 - (getDay(date) - 1)),
   ms |-> LastMs]

startOfMonth(date) == newDate(getFullYear(date), getMonth(date), 1)

endOfMonth(date) ==
  [day |-> newDate(getFullYear(date), getMonth(date) + 1, 0).day, ms |-> LastMs]

subDays(date, amount) == [day |-> date.day - amount, ms |-> date.ms]

subWeeks(date, amount) == subDays(date, amount * 7)

\* The same day of the month amount months earlier, running over into the
\* next month when the desired month is shorter, as Date.prototype.setMonth.
subMonthsOverflowing(date, amount) ==
  [day |-> newDate(getFullYear(date), getMonth(date) - amount, getDate(date)).day,
   ms |-> date.ms]

\* subMonths(date, amount) = addMonths(date, -amount): the same day of the
\* month, or the last day of the desired month when that month is shorter.
subMonths(date, amount) ==
  LET clamped(dayOfMonth, endOfDesiredMonth) ==
        IF dayOfMonth >= getDate(endOfDesiredMonth) THEN endOfDesiredMonth
        ELSE [day |-> newDate(getFullYear(endOfDesiredMonth),
                              getMonth(endOfDesiredMonth), dayOfMonth).day,
              ms |-> date.ms]
  IN  IF amount = 0 THEN date
      ELSE clamped(getDate(date),
                   [day |-> newDate(getFullYear(date), getMonth(date) - amount + 1, 0).day,
                    ms |-> date.ms])

\* getISOWeekYear(date): startOfWeek of January 4th opens an ISO week-year.
getISOWeekYear(date) ==
  LET weekYear(year) ==
        IF dateLE(startOfWeek(newDate(year + 1, 0, 4)), date) THEN year + 1
        ELSE IF dateLE(startOfWeek(newDate(year, 0, 4)), date) THEN year
        ELSE year - 1
  IN  weekYear(getFullYear(date))

startOfISOWeekYear(date) == startOfWeek(newDate(getISOWeekYear(date), 0, 4))

\* getISOWeek(date): Math.round(diff / MILLISECONDS_IN_WEEK) + 1, where diff
\* is a whole number of days here.
getISOWeek(date) ==
  LET diffDays == startOfWeek(date).day - startOfISOWeekYear(date).day
  IN  (2 * diffDays + 7) \div 14 + 1

\* isWithinInterval(date, { start, end }); throws a RangeError when the
\* interval is invalid or start is after end.
intervalThrows(start, end) == ~isValid(start) \/ ~isValid(end) \/ ~dateLE(start, end)
isWithinInterval(date, start, end) ==
  isValid(date) /\ dateLE(start, date) /\ dateLE(date, end)

MonthNames ==
  <<"January", "February", "March", "April", "May", "June", "July", "August",
    "September", "October", "November", "December">>
DayNames ==
  <<"Sunday", "Monday", "Tuesday", "Wednesday", "Thursday", "Friday", "Saturday">>

\* format(date, pattern) for the patterns the scraper uses.
fmt_yy(date) == pad2(getFullYear(date) % 100)
fmt_yyyy(date) == String(getFullYear(date))
fmt_MM(date) == pad2(getMonth(date) + 1)
fmt_dd(date) == pad2(getDate(date))
fmt_d(date) == String(getDate(date))
fmt_MMMM(date) == MonthNames[getMonth(date) + 1]
fmt_MMM(date) == SubSeq(fmt_MMMM(date), 1, 3)
fmt_EEEE(date) == DayNames[getDay(date) + 1]

\***************************************************************************
\* Window calculator: identifiers
\***************************************************************************

\* Week information with the calendar year in place of the ISO week-year.
getWeekInfoOfCalendarYear(date) == [week |-> getISOWeek(date), year |-> getFullYear(date)]

getWeekInfo(date) == [week |-> getISOWeek(date), year |-> getISOWeekYear(date)]

\* A week id with the week number padded to two digits.
generateWeekIdPadded(week, year) == sliceLast(String(year), 2) \o "-" \o pad2(week)

generateWeekId(week, year) == sliceLast(String(year), 2) \o "-" \o String(week)

\* A day id without the day of the month.
generateDayIdOfMonth(date) == fmt_yy(date) \o "-" \o fmt_MM(date)

\* format(date, 'yy-MM-dd')
generateDayId(date) == fmt_yy(date) \o "-" \o fmt_MM(date) \o "-" \o fmt_dd(date)

\* format(date, 'yy-MM')
generateMonthId(date) == fmt_yy(date) \o "-" \o fmt_MM(date)

\***************************************************************************
\* Feeds: what the configured sources serve
\***************************************************************************

\* Three of the sixteen configured sources, one of each priority, in
\* configuration order.
SOURCES ==
  << [key |-> "techcrunch", name |-> "TechCrunch", priority |-> 1],
     [key |-> "engadget", name |-> "Engadget", priority |-> 2],
     [key |-> "coindesk", name |-> "CoinDesk", priority |-> 3] >>

\* A local time of 2026.
At(month, day, hour, minute) ==
  [day |-> daysFromCivil(2026, month, day), ms |-> (hour * 60 + minute) * 60000]

\* An entry that carries neither isoDate nor pubDate.
NoDate == [day |-> 0, ms |-> -2]

\* A feed entry as rss-parser returns it.  date is the entry's isoDate, NoDate,
\* or InvalidDate for a pubDate that parseISO cannot read.
Entry(title, contentSnippet, link, date) ==
  [title |-> title, contentSnippet |-> contentSnippet, link |-> link, date |-> date]

TechCrunchFeed ==
  << Entry("OpenAI announces GPT-5, stock jumps", "", "tc/1", At(2, 5, 9, 0)),
     Entry("Tesla unveils new robotaxi design",
           "Tesla showed a new design for its robotaxi.", "tc/2", At(2, 5, 8, 30)),
     Entry("Best Black Friday deals on laptops",
           "Nvidia, OpenAI and Apple: antitrust, acquisition.", "tc/3", At(2, 5, 8, 0)),
     Entry("Nvidia acquires chip startup for $2 billion", "", "tc/4", At(2, 5, 7, 0)),
     Entry("Apple vs. Google: antitrust ruling",
           "The FTC and the DOJ weigh in.", "tc/5", At(2, 4, 10, 0)),
     Entry("Robotaxi design unveiled by Tesla", "", "tc/6", At(2, 4, 9, 0)),
     Entry("Anthropic raises funding round",
           "Claude maker Anthropic closes a funding round.", "tc/7", At(2, 3, 15, 0)),
     Entry("SpaceX Starship rocket launch succeeds", "", "tc/8", At(2, 2, 0, 0)),
     Entry("Microsoft layoffs hit cloud unit", "", "tc/9", At(1, 28, 12, 0)),
     Entry("Amazon antitrust lawsuit filed", "", "tc/10", At(1, 10, 12, 0)) >>

EngadgetFeed ==
  << Entry("Tesla Unveils New Robotaxi Design!", "", "en/1", At(2, 5, 10, 0)),
     Entry("Meta buys startup", "The deal is worth billions.", "en/2", At(2, 5, 9, 30)),
     Entry("Apple and Google sign pact", "", "en/3", At(2, 5, 9, 0)),
     Entry("A quiet week for gadgets", "", "en/4", At(2, 5, 8, 0)),
     Entry("Intel CEO quits", "", "en/5",
           [day |-> daysFromCivil(2026, 2, 4), ms |-> LastMs]),
     Entry("Quantum leap forward", "", "en/6", At(2, 4, 11, 0)),
     Entry("New satellite and chip", "", "en/7", At(2, 4, 10, 0)),
     Entry("Anthropic Raises Funding Round", "", "en/8", At(2, 3, 9, 0)),
     Entry("Gadget roundup", "", "en/9", At(1, 27, 9, 0)) >>

CoinDeskFeed ==
  << Entry("Bitcoin tops record as Coinbase soars", "", "cd/1", At(2, 5, 6, 0)),
     Entry("Stripe adds stablecoin payments", "", "cd/2", NoDate),
     Entry("Palantir wins army contract", "", "cd/3", InvalidDate),
     Entry("Uber and Waymo expand robotaxi service", "", "cd/4", At(2, 3, 8, 0)),
     Entry("Intel CEO quits, IPO off", "", "cd/13",
           [day |-> daysFromCivil(2026, 2, 8), ms |-> LastMs]),
     Entry("Intel CEO quits, IPO off", "", "cd/14", At(2, 4, 12, 0)),
     Entry("Nvidia, AMD and Intel face antitrust lawsuit over GPU chip", "", "cd/15",
           At(2, 4, 14, 0)) >>

\* A contentSnippet of 510 characters: 494 characters of filler, then Nvidia,
\* which ends at character 500, then antitrust, which lies behind it.
RECURSIVE repeat(_, _)
repeat(s, n) == IF n = 0 THEN "" ELSE s \o repeat(s, n - 1)

LongSnippet == repeat("lorem ", 82) \o "  " \o "Nvidia antitrust"

\* A contentSnippet whose only terms lie behind its first 500 characters.
TailSnippet == repeat("lorem ", 84) \o "antitrust lawsuit"

\* Entries of later weeks and of the turn of the year, which CoinDesk serves
\* behind the others in the runs of the calendar.
LaterFeed ==
  << Entry("Samsung opens chip plant", "", "cd/5", At(2, 25, 9, 0)),
     Entry("Adobe buys video startup", "", "cd/6", At(3, 3, 9, 0)),
     Entry("Oracle wins cloud contract", "", "cd/7", At(12, 20, 9, 0)),
     Entry("Netflix tests robot cameras", "", "cd/8", At(12, 30, 9, 0)),
     Entry("Huawei ships new processor", "", "cd/9", At(12, 31, 9, 0)),
     Entry("Xiaomi shows electric car", "", "cd/10",
           [day |-> daysFromCivil(2027, 1, 1), ms |-> 9 * 3600000]),
     Entry("Baidu expands robotaxi fleet", "", "cd/11",
           [day |-> daysFromCivil(2027, 1, 5), ms |-> 9 * 3600000]),
     Entry("Markets close flat", LongSnippet, "cd/12", At(3, 3, 10, 0)),
     Entry("Week in review", TailSnippet, "cd/16", At(3, 3, 11, 0)) >>

BaseFeed(key) ==
  CASE key = "techcrunch" -> TechCrunchFeed
    [] key = "engadget" -> EngadgetFeed
    [] key = "coindesk" -> CoinDeskFeed

SourceKeys == { SOURCES[k].key : k \in 1..Len(SOURCES) }

\* What parser.parseURL can do for a source: fail, or return the first n
\* entries of the source's feed, for n none, half or all of them.
FeedOutcomes(key) ==
  LET base == BaseFeed(key)
  IN  { [ok |-> FALSE, items |-> <<>>] }
        \cup { [ok |-> TRUE, items |-> SubSeq(base, 1, n)] :
               n \in {0, Len(base) \div 2, Len(base)} }

Worlds == { w \in [SourceKeys -> UNION { FeedOutcomes(k) : k \in SourceKeys }] :
              \A k \in SourceKeys : w[k] \in FeedOutcomes(k) }

\***************************************************************************
\* Feed fetching
\***************************************************************************

\* fetchFeed(sourceKey, source) at time clock, given what the source serves:
\* the articles of the feed, or [] when parser.parseURL throws.
fetchFeed(source, outcome, clock) ==
  IF ~outcome.ok THEN <<>>
  ELSE [k \in 1..Len(outcome.items) |->
         LET entry == outcome.items[k] IN
           [title |-> entry.title,
            link |-> entry.link,
            description |-> entry.contentSnippet,
            published |-> IF entry.date = NoDate THEN clock ELSE entry.date,
            source |-> source.name,
            sourceKey |-> source.key,
            priority |-> source.priority]]

\* fetchAllFeeds(): the articles of the sources 1..k, in configuration order.
RECURSIVE fetchedUpTo(_, _, _)
fetchedUpTo(k, world, clock) ==
  IF k = 0 THEN <<>>
  ELSE fetchedUpTo(k - 1, world, clock)
       \o fetchFeed(SOURCES[k], world[SOURCES[k].key], clock)

\* A fetchAllFeeds that one failing source empties, as awaiting the feeds
\* together without a catch in fetchFeed would.
fetchAllFeedsAborting(world, clock) ==
  IF \E k \in 1..Len(SOURCES) : ~world[SOURCES[k].key].ok THEN <<>>
  ELSE fetchedUpTo(Len(SOURCES), world, clock)

fetchAllFeeds(world, clock) == fetchedUpTo(Len(SOURCES), world, clock)

\***************************************************************************
\* Scoring tables.  calculateRelevance, categorizeArticle and the signature of
\* deduplicateArticles are pure and read the title, the description and the
\* priority only; their values on what the feeds can serve are evaluated
\* once, when the run starts, and held in scoring.
\***************************************************************************

\* What the sources can serve in the runs that follow the news of the feeds.
BaseContents ==
  UNION { { [title |-> BaseFeed(SOURCES[k].key)[n].title,
             description |-> BaseFeed(SOURCES[k].key)[n].contentSnippet,
             priority |-> SOURCES[k].priority] :
            n \in 1..Len(BaseFeed(SOURCES[k].key)) } :
          k \in 1..Len(SOURCES) }

\* What CoinDesk serves behind it in the runs of the calendar.
LaterContents ==
  { [title |-> LaterFeed[n].title,
     description |-> LaterFeed[n].contentSnippet,
     priority |-> SOURCES[3].priority] : n \in 1..Len(LaterFeed) }

Contents == BaseContents \cup LaterContents

contentOf(article) ==
  [title |-> article.title, description |-> article.description,
   priority |-> article.priority]

\* What the scoring tables cover in the runs that follow the news: every title
\* of the feeds of the news with every description of those feeds under its
\* own priority, and with its own description under every priority; every
\* title that matches an exclusion pattern with every description under
\* every priority; and the description of more than 500 characters with the
\* first title of the first feed, under every priority.
Variants ==
  { [title |-> t.title, description |-> d.description, priority |-> t.priority] :
    t \in BaseContents, d \in BaseContents }
    \cup { [title |-> t.title, description |-> t.description, priority |-> p.priority] :
           t \in BaseContents, p \in BaseContents }
    \cup { [title |-> t.title, description |-> d.description, priority |-> p.priority] :
           t \in { c \in BaseContents : shouldExclude(c.title) },
           d \in BaseContents, p \in BaseContents }
    \cup { [title |-> TechCrunchFeed[1].title, description |-> LongSnippet,
            priority |-> p.priority] : p \in BaseContents }

\* The elements of x at the positions of S, in the order of x.
AtPositions(x, S) ==
  LET chosen == SelectSeq([k \in 1..Len(x) |-> k], LAMBDA k : k \in S)
  IN  [j \in 1..Len(chosen) |-> x[chosen[j]]]

\* The terms of the companies, the high-impact keywords and the topics, in
\* that order, that occur in the lowercase title, a space and the first 500
\* characters of the lowercase description; of the keywords and the topics
\* those only that no term before them equals.
termsMentioned(c) ==
  LET all == BIG_TECH_COMPANIES \o HIGH_IMPACT_KEYWORDS \o RELEVANT_TOPICS
      first500(description) ==
        IF Len(description) <= 500 THEN description ELSE SubSeq(description, 1, 500)
      fresh(hit) ==
        { k \in hit : k <= Len(BIG_TECH_COMPANIES)
                        \/ \A j \in hit : j < k => all[j] # all[k] }
      hits(haystack) ==
        { k \in 1..Len(all) : includes(haystack, toLowerCase(all[k])) }
      ordered(haystack) == AtPositions(all, fresh(hits(haystack)))
  IN  ordered(toLowerCase(c.title) \o " " \o first500(toLowerCase(c.description)))

\* The number of terms of a lexicon table that occur in text.
termsFound(table, text) ==
  Cardinality({ k \in 1..Len(table) : includes(text, toLowerCase(table[k])) })

\* The numbers of terms the four scoring loops find for a title, a
\* description and a priority: in the lowercase title, a space and the first
\* 500 characters of the lowercase description, and in the title alone.
termCounts(c) ==
  LET count(title, haystack) ==
        [companies |-> termsFound(BIG_TECH_COMPANIES, haystack),
         keywords |-> termsFound(HIGH_IMPACT_KEYWORDS, haystack),
         topics |-> termsFound(RELEVANT_TOPICS, haystack),
         inTitle |-> termsFound(BIG_TECH_COMPANIES, title)]
      first500(description) ==
        IF Len(description) <= 500 THEN description ELSE SubSeq(description, 1, 500)
  IN  count(toLowerCase(c.title),
            toLowerCase(c.title) \o " " \o first500(toLowerCase(c.description)))

\* What categorizeArticle is evaluated on: what the sources can serve, under
\* every priority.
CategoryInputs ==
  Contents \cup { [title |-> t.title, description |-> t.description,
                   priority |-> p.priority] : t \in Contents, p \in BaseContents }

\* For each category, in the order of CATEGORIES, the number of its keywords
\* that occur in the lowercase title, a space and the lowercase description.
keywordCounts(c) ==
  LET count(haystack) ==
        [k \in 1..Len(CATEGORIES) |-> termsFound(CATEGORIES[k].keywords, haystack)]
  IN  count(toLowerCase(c.title) \o " " \o toLowerCase(c.description))

\* The tables for the articles of variants, with the categories of those of
\* inputs.
ScoringTables(variants, inputs) ==
  [excluded |-> [t \in { c.title : c \in variants \cup inputs } |-> shouldExclude(t)],
   found |-> [c \in variants |-> termCounts(c)],
   mentioned |-> [c \in variants |-> termsMentioned(c)],
   relevance |-> [c \in variants |-> calculateRelevance(c)],
   category |-> [c \in inputs |-> categorizeArticle(c)],
   hits |-> [c \in inputs |-> keywordCounts(c)],
   signature |-> [t \in { c.title : c \in variants \cup inputs } |-> signature(t)]]

VARIABLE scoring  \* ScoringTables, evaluated once when the run starts

excludedTitle == scoring.excluded
mentionedIn == scoring.mentioned
relevanceOf == scoring.relevance
categoryOf == scoring.category
hitsOf == scoring.hits
signatureOf == scoring.signature
foundIn == scoring.found

\***************************************************************************
\* Digest assembler
\***************************************************************************

\* A date test that lets a published value that is no date into every
\* window.
isInRangeFailingOpen(articleDate, start, end) ==
  ~isValid(articleDate) \/ isWithinInterval(articleDate, start, end)

\* A range that ends before its last millisecond.
isInRangeHalfOpen(articleDate, start, end) ==
  IF intervalThrows(start, end) THEN FALSE
  ELSE isWithinInterval(articleDate, start, end) /\ articleDate # end

\* isInRange(articleDate, start, end): false when isWithinInterval throws.
isInRange(articleDate, start, end) ==
  IF intervalThrows(start, end) THEN FALSE
  ELSE isWithinInterval(articleDate, start, end)

\* deduplicateArticles: [seen, unique] after the first k iterations.
RECURSIVE dedupLoop(_, _)
dedupLoop(articles, k) ==
  IF k = 0 THEN [seen |-> {}, unique |-> <<>>]
  ELSE LET acc == dedupLoop(articles, k - 1)
           article == articles[k]
           words == signatureOf[article.title]
       IN  IF words \notin acc.seen
           THEN [seen |-> acc.seen \cup {words}, unique |-> Append(acc.unique, article)]
           ELSE acc

\* A deduplicator that drops the first repeated article only.
RECURSIVE dropFirstRepeat(_, _)
dropFirstRepeat(articles, k) ==
  IF k > Len(articles) THEN articles
  ELSE IF \E j \in 1..(k - 1) : signatureOf[articles[j].title] = signatureOf[articles[k].title]
       THEN SubSeq(articles, 1, k - 1) \o SubSeq(articles, k + 1, Len(articles))
       ELSE dropFirstRepeat(articles, k + 1)

deduplicateOnce(articles) == dropFirstRepeat(articles, 1)

\* A deduplicator that keeps the last article of every signature.
deduplicateKeepingLast(articles) ==
  LET n == Len(articles)
      backwards == [k \in 1..n |-> articles[n + 1 - k]]
      kept(u) == [k \in 1..Len(u) |-> u[Len(u) + 1 - k]]
  IN  kept(dedupLoop(backwards, n).unique)

deduplicateArticles(articles) == dedupLoop(articles, Len(articles)).unique

\* The article with relevanceScore, matchedKeywords and category added.
scored(article) ==
  [title |-> article.title,
   link |-> article.link,
   description |-> article.description,
   published |-> article.published,
   source |-> article.source,
   sourceKey |-> article.sourceKey,
   priority |-> article.priority,
   relevanceScore |-> relevanceOf[contentOf(article)].score,
   matchedKeywords |-> relevanceOf[contentOf(article)].reasons,
   category |-> categoryOf[contentOf(article)]]

\* arr.sort((a, b) => b.relevanceScore - a.relevanceScore): a stable sort;
\* x goes behind every element that does not score lower.
RECURSIVE insertByScore(_, _)
insertByScore(sorted, x) ==
  IF sorted = <<>> THEN <<x>>
  ELSE IF sorted[Len(sorted)].relevanceScore >= x.relevanceScore THEN Append(sorted, x)
  ELSE Append(insertByScore(SubSeq(sorted, 1, Len(sorted) - 1), x), sorted[Len(sorted)])

\* No sort: the articles stay in feed order.
feedOrder(arr) == arr

RECURSIVE sortByScore(_)
sortByScore(arr) ==
  IF arr = <<>> THEN <<>>
  ELSE insertByScore(sortByScore(SubSeq(arr, 1, Len(arr) - 1)), arr[Len(arr)])

\* A filter that lets every score through.
anyScore(article) == article.relevanceScore >= 0

\* A filter that keeps every article with a positive score.
positiveScore(article) == article.relevanceScore > 0

atLeastMinimum(article) == article.relevanceScore >= MIN_RELEVANCE_SCORE

\* The locals of processArticles.
rangeArticles(articles, start, end) ==
  SelectSeq(articles, LAMBDA a : isInRange(a.published, start, end))

\* A sort that puts the later of two equally scored articles first.
relevantArticlesLaterFirst(articles, start, end) ==
  LET inRange == rangeArticles(articles, start, end)
      mapped == [k \in 1..Len(inRange) |-> scored(inRange[k])]
      backwards(s) == [k \in 1..Len(s) |-> s[Len(s) + 1 - k]]
  IN  sortByScore(backwards(SelectSeq(mapped, atLeastMinimum)))

relevantArticles(articles, start, end) ==
  LET inRange == rangeArticles(articles, start, end)
      mapped == [k \in 1..Len(inRange) |-> scored(inRange[k])]
  IN  sortByScore(SelectSeq(mapped, atLeastMinimum))

uniqueArticles(articles, start, end) ==
  deduplicateArticles(relevantArticles(articles, start, end))

\* The byCategory loop: the buckets after the first k unique articles.
RECURSIVE categoryBuckets(_, _)
categoryBuckets(unique, k) ==
  IF k = 0 THEN <<>>
  ELSE LET byCategory == categoryBuckets(unique, k - 1)
           article == unique[k]
       IN  IF article.category # null
           THEN IF article.category \in DOMAIN byCategory
                THEN [byCategory EXCEPT ![article.category] = Append(@, article)]
                ELSE byCategory @@ (article.category :> <<article>>)
           ELSE byCategory

\* An assembler that counts the highlights instead of the full list.
processArticlesCountingHighlights(articles, start, end) ==
  LET result(unique) ==
        [highlights |-> slice(unique, 10),
         byCategory |-> categoryBuckets(unique, Len(unique)),
         totalArticles |-> Len(slice(unique, 10))]
  IN  result(uniqueArticles(articles, start, end))

\* An assembler that groups the highlights instead of the full list.
processArticlesGroupingHighlights(articles, start, end) ==
  LET result(unique) ==
        [highlights |-> slice(unique, 10),
         byCategory |-> categoryBuckets(slice(unique, 10), Len(slice(unique, 10))),
         totalArticles |-> Len(unique)]
  IN  result(uniqueArticles(articles, start, end))

processArticles(articles, start, end) ==
  LET result(unique) ==
        [highlights |-> slice(unique, 10),
         byCategory |-> categoryBuckets(unique, Len(unique)),
         totalArticles |-> Len(unique)]
  IN  result(uniqueArticles(articles, start, end))

\* A window that starts at the instant of the reference date instead of at
\* the start of its day.
dailyWindowFromInstant(date) == [start |-> date, end |-> endOfDay(date)]

\* The window (start, end) a generator passes to processArticles.
dailyWindow(date) == [start |-> startOfDay(date), end |-> endOfDay(date)]

\* A week that ends with its Saturday.
weeklyWindowToSaturday(weekNum, year) ==
  LET ending(weekStart) ==
        [start |-> weekStart, end |-> endOfDay(setDate(weekStart, getDate(weekStart) + 5))]
      starting(week1Start) ==
        ending(setDate(week1Start, getDate(week1Start) + (weekNum - 1) * 7))
  IN  starting(startOfWeek(newDate(year, 0, 4)))

\* jan4 = new Date(year, 0, 4), week1Start = startOfWeek(jan4), weekStart =
\* week1Start moved on by (weekNum - 1) * 7 days, weekEnd = endOfWeek(weekStart)
weeklyWindow(weekNum, year) ==
  LET ending(weekStart) == [start |-> weekStart, end |-> endOfWeek(weekStart)]
      starting(week1Start) ==
        ending(setDate(week1Start, getDate(week1Start) + (weekNum - 1) * 7))
  IN  starting(startOfWeek(newDate(year, 0, 4)))

monthlyWindow(date) == [start |-> startOfMonth(date), end |-> endOfMonth(date)]

\* generateDailyDigest(date, articles) when the clock reads clock
generateDailyDigest(date, articles, clock) ==
  LET digestOf(processed) ==
        [type |-> "daily",
         id |-> generateDayId(date),
         title |-> fmt_EEEE(date) \o ", " \o fmt_MMM(date) \o " " \o fmt_d(date),
         dateRange |-> fmt_MMMM(date) \o " " \o fmt_d(date) \o ", " \o fmt_yyyy(date),
         date |-> fmt_yyyy(date) \o "-" \o fmt_MM(date) \o "-" \o fmt_dd(date),
         generatedAt |-> clock,
         highlights |-> processed.highlights,
         byCategory |-> processed.byCategory,
         totalArticles |-> processed.totalArticles]
      within(w) == digestOf(processArticles(articles, w.start, w.end))
  IN  within(dailyWindow(date))

\* generateWeeklyDigest(weekNum, year, articles).  The en dash of dateRange
\* is written as a hyphen.
generateWeeklyDigest(weekNum, year, articles, clock) ==
  LET digestOf(w, processed) ==
        [type |-> "weekly",
         id |-> generateWeekId(weekNum, year),
         week |-> weekNum,
         year |-> year,
         title |-> "Week " \o String(weekNum),
         dateRange |-> fmt_MMM(w.start) \o " " \o fmt_d(w.start) \o " - "
                       \o fmt_MMM(w.end) \o " " \o fmt_d(w.end) \o ", " \o fmt_yyyy(w.end),
         generatedAt |-> clock,
         highlights |-> processed.highlights,
         byCategory |-> processed.byCategory,
         totalArticles |-> processed.totalArticles]
      within(w) == digestOf(w, processArticles(articles, w.start, w.end))
  IN  within(weeklyWindow(weekNum, year))

\* generateMonthlyDigest(date, articles).  The en dash of dateRange is
\* written as a hyphen.
generateMonthlyDigest(date, articles, clock) ==
  LET digestOf(w, processed) ==
        [type |-> "monthly",
         id |-> generateMonthId(date),
         title |-> fmt_MMMM(date) \o " " \o fmt_yyyy(date),
         dateRange |-> fmt_MMM(w.start) \o " " \o fmt_d(w.start) \o " - "
                       \o fmt_MMM(w.end) \o " " \o fmt_d(w.end) \o ", " \o fmt_yyyy(w.end),
         month |-> getMonth(date) + 1,
         year |-> getFullYear(date),
         generatedAt |-> clock,
         highlights |-> processed.highlights,
         byCategory |-> processed.byCategory,
         totalArticles |-> processed.totalArticles]
      within(w) == digestOf(w, processArticles(articles, w.start, w.end))
  IN  within(monthlyWindow(date))

\***************************************************************************
\* Persistence and index
\***************************************************************************

\* A save that leaves a file of that name as it is.
saveDigestKeeping(dataDir, digest, subdir) ==
  [dataDir EXCEPT ![subdir] = @ @@ (digest.id :> digest)]

\* saveDigest(digest, subdir): data/<subdir>/<id>.json is written, replacing a
\* file of that name.
saveDigest(dataDir, digest, subdir) ==
  [dataDir EXCEPT ![subdir] = (digest.id :> digest) @@ @]

\* a.localeCompare(b) for strings of digits and hyphens
localeCompare(a, b) == IF a = b THEN 0 ELSE IF strLess(a, b) THEN -1 ELSE 1

\* A comparison of the ids as strings, for every kind.
compareById(kind, a, b) == localeCompare(b.id, a.id)

\* The compare functions of the three sorts of updateIndex: newest first.
compare(kind, a, b) ==
  CASE kind = "daily" -> localeCompare(b.date, a.date)
    [] kind = "weekly" -> IF a.year # b.year THEN b.year - a.year ELSE b.week - a.week
    [] kind = "monthly" -> IF a.year # b.year THEN b.year - a.year ELSE b.month - a.month

\* index[kind].sort(compare), compare(a, b) > 0 meaning a goes behind b: a
\* stable sort.
sortWith(arr, kind) ==
  LET insert(sorted, x) ==
        LET p == Cardinality({ k \in 1..Len(sorted) : compare(kind, sorted[k], x) <= 0 })
        IN  SubSeq(sorted, 1, p) \o <<x>> \o SubSeq(sorted, p + 1, Len(sorted))
      upTo[k \in 0..Len(arr)] ==
        IF k = 0 THEN <<>> ELSE insert(upTo[k - 1], arr[k])
  IN  upTo[Len(arr)]

\* fs.readdir(dir): the file names, here in name order.
RECURSIVE listing(_)
listing(names) ==
  IF names = {} THEN <<>>
  ELSE LET name == CHOOSE n \in names : TRUE
       IN  insertWord(listing(names \ {name}), name)

readdir(dir) == listing(DOMAIN dir)

\* A listing that keeps the digests without articles.
listedAll(dir) ==
  LET files == readdir(dir)
  IN  [k \in 1..Len(files) |-> dir[files[k]]]

\* The digests of a directory that updateIndex lists: totalArticles > 0.
listed(dir) ==
  LET files == readdir(dir)
      digests == [k \in 1..Len(files) |-> dir[files[k]]]
  IN  SelectSeq(digests, LAMBDA digest : digest.totalArticles > 0)

dailyRecord(digest) ==
  [id |-> digest.id, title |-> digest.title, date |-> digest.date,
   dateRange |-> digest.dateRange, totalArticles |-> digest.totalArticles,
   highlightCount |-> Len(digest.highlights)]

weeklyRecord(digest) ==
  [id |-> digest.id, title |-> digest.title, week |-> digest.week, year |-> digest.year,
   dateRange |-> digest.dateRange, totalArticles |-> digest.totalArticles,
   highlightCount |-> Len(digest.highlights)]

monthlyRecord(digest) ==
  [id |-> digest.id, title |-> digest.title, month |-> digest.month, year |-> digest.year,
   dateRange |-> digest.dateRange, totalArticles |-> digest.totalArticles,
   highlightCount |-> Len(digest.highlights)]

\* updateIndex(): the index written to data/index.json
updateIndex(dataDir, clock) ==
  LET daily == listed(dataDir.daily)
      weekly == listed(dataDir.weekly)
      monthly == listed(dataDir.monthly)
  IN  [lastUpdated |-> clock,
       daily |-> sortWith([k \in 1..Len(daily) |-> dailyRecord(daily[k])], "daily"),
       weekly |-> sortWith([k \in 1..Len(weekly) |-> weeklyRecord(weekly[k])], "weekly"),
       monthly |-> sortWith([k \in 1..Len(monthly) |-> monthlyRecord(monthly[k])], "monthly")]

\***************************************************************************
\* The site builder: its digest pages
\***************************************************************************

\* build(), the loop over index[type]: public/<type>/<digest.id>.html is
\* written for every record of the index whose digest file can be read.
digestPages(index, dataDir) ==
  [type \in {"daily", "weekly", "monthly"} |->
     { dataDir[type][index[type][k].id].id :
         k \in { n \in 1..Len(index[type]) : index[type][n].id \in DOMAIN dataDir[type] } }]

\* s.split(sep) for a separator of one character.
RECURSIVE splitOn(_, _)
splitOn(s, sep) ==
  IF Len(s) = 0 THEN <<"">>
  ELSE LET init == splitOn(SubSeq(s, 1, Len(s) - 1), sep)
           c == SubSeq(s, Len(s), Len(s))
       IN  IF c = sep THEN Append(init, "")
           ELSE [init EXCEPT ![Len(init)] = @ \o c]

\* Number(s) for a string of decimal digits.
RECURSIVE Number(_)
Number(s) ==
  IF Len(s) = 0 THEN 0
  ELSE Number(SubSeq(s, 1, Len(s) - 1)) * 10 + (charCodeAt(SubSeq(s, Len(s), Len(s))) - 48)

\* s.replace(/[^a-z0-9]/g, ''), computed by halves.
RECURSIVE keepAlnum(_)
keepAlnum(s) ==
  IF Len(s) = 0 THEN ""
  ELSE IF Len(s) = 1 THEN (IF isLowerAlnum(s) THEN s ELSE "")
  ELSE LET h == Len(s) \div 2
       IN  keepAlnum(SubSeq(s, 1, h)) \o keepAlnum(SubSeq(s, h + 1, Len(s)))

\* getWeekToDateArticles: the key of a title in seenTitles
titleKey(title) == substring(keepAlnum(toLowerCase(title)), 0, 50)

\* The date parsed from a daily id YY-MM-DD: an id of fewer parts leaves dd
\* undefined and the date invalid, which no comparison holds for.
digestDateOf(id) ==
  LET parts == splitOn(id, "-")
  IN  IF Len(parts) < 3 THEN InvalidDate
      ELSE newDate(2000 + Number(parts[1]), Number(parts[2]) - 1, Number(parts[3]))

\* format(date, 'EEE')
fmt_EEE(date) == SubSeq(fmt_EEEE(date), 1, 3)

\* article.score: the value of the property, or undefined when the object
\* has none of that name.
hasScore(article) == "score" \in DOMAIN article

\* (article.score || 0)
scoreOrZero(article) == IF hasScore(article) THEN article.score ELSE 0

\* The compare function of getWeekToDateArticles, the difference of the
\* dates in milliseconds.
compareWeekToDate(a, b) ==
  IF hasScore(a) # hasScore(b) \/ (hasScore(a) /\ a.score # b.score)
  THEN scoreOrZero(b) - scoreOrZero(a)
  ELSE (b.digestDate.day - a.digestDate.day) * MsPerDay + (b.digestDate.ms - a.digestDate.ms)

\* articles.sort(compareWeekToDate): a stable sort.
sortWeekToDate(arr) ==
  LET insert(sorted, x) ==
        LET p == Cardinality({ k \in 1..Len(sorted) : compareWeekToDate(sorted[k], x) <= 0 })
        IN  SubSeq(sorted, 1, p) \o <<x>> \o SubSeq(sorted, p + 1, Len(sorted))
      upTo[k \in 0..Len(arr)] ==
        IF k = 0 THEN <<>> ELSE insert(upTo[k - 1], arr[k])
  IN  upTo[Len(arr)]

\* The highlights getWeekToDateArticles takes from one record of index.daily:
\* none when the digest is outside the week to date or its file is missing,
\* else the first five with dayLabel and digestDate added.
weekToDateOf(daily, dataDir, clock) ==
  LET digestDate == digestDateOf(daily.id)
      labelled(article) ==
        [dayLabel |-> fmt_EEE(digestDate), digestDate |-> digestDate] @@ article
      first5 == IF daily.id \in DOMAIN dataDir.daily
                THEN slice(dataDir.daily[daily.id].highlights, 5)
                ELSE <<>>
  IN  IF isValid(digestDate) /\ dateLE(startOfWeek(clock), digestDate)
           /\ dateLE(digestDate, clock)
      THEN [k \in 1..Len(first5) |-> labelled(first5[k])]
      ELSE <<>>

\* getWeekToDateArticles(index) when the clock reads clock: the highlights
\* of the dailies of the index in order, one per title key, sorted.
getWeekToDateArticles(index, dataDir, clock) ==
  LET taken[k \in 0..Len(index.daily)] ==
        IF k = 0 THEN <<>>
        ELSE taken[k - 1] \o weekToDateOf(index.daily[k], dataDir, clock)
      all == taken[Len(index.daily)]
      keys == [k \in 1..Len(all) |-> titleKey(all[k].title)]
      firstOfKey(k) == \A j \in 1..(k - 1) : keys[j] # keys[k]
  IN  sortWeekToDate(AtPositions(all, { k \in 1..Len(all) : firstOfKey(k) }))

NoPages == [type \in {"daily", "weekly", "monthly"} |-> {}]

\***************************************************************************
\* The weekly-only scraper, the second program of src/scraper/index.js: its
\* functions
\***************************************************************************

WEEKS_TO_BACKFILL == 4

\* getWeekInfo(date) of the weekly-only scraper: d is moved to the Thursday
\* of date's week, time of day kept; weekNo is the ceiling of
\* ((d - yearStart) / 86400000 + 1) / 7, where the quotient is a whole
\* number of days plus the fraction of the day gone at d.
getWeekInfoUTC(date) ==
  LET dayNum == IF getDay(date) = 0 THEN 7 ELSE getDay(date)
      d == [day |-> date.day + 4 - dayNum, ms |-> date.ms]
      yearStart == newDate(getFullYear(d), 0, 1)
      days == d.day - yearStart.day
      weekNo == IF d.ms = 0 THEN (days + 1 + 6) \div 7 ELSE ((days + 1) \div 7) + 1
  IN  [week |-> weekNo, year |-> getFullYear(d)]

\* generateDigest: the week boundaries.  firstMonday is the first Monday
\* from January 1st of year on.
digestWindow(weekNumber, year) ==
  LET jan1 == newDate(year, 0, 1)
      firstMonday == setDate(jan1, getDate(jan1) + ((8 - getDay(jan1)) % 7))
      weekStart == setDate(firstMonday, getDate(firstMonday) + (weekNumber - 1) * 7)
      weekEnd == endOfDay(setDate(weekStart, getDate(weekStart) + 6))
  IN  [start |-> weekStart, end |-> weekEnd]

fmt_yyyy_MM_dd(date) == fmt_yyyy(date) \o "-" \o fmt_MM(date) \o "-" \o fmt_dd(date)

\* processWeek(articles, weekStart, weekEnd)
processWeek(articles, weekStart, weekEnd) ==
  [weekStart |-> fmt_yyyy_MM_dd(weekStart), weekEnd |-> fmt_yyyy_MM_dd(weekEnd)]
    @@ processArticles(articles, weekStart, weekEnd)

\* generateDigest(weekNumber, year, articles) when the clock reads clock:
\* the fields of processed are spread over the others.
generateDigest(weekNumber, year, articles, clock) ==
  LET digestOf(w) ==
        processWeek(articles, w.start, w.end)
          @@ [week |-> weekNumber,
              year |-> year,
              id |-> "week-" \o String(weekNumber) \o "-" \o String(year),
              title |-> "Week " \o String(weekNumber) \o ", " \o String(year),
              dateRange |-> fmt_MMM(w.start) \o " " \o fmt_d(w.start) \o " - "
                            \o fmt_MMM(w.end) \o " " \o fmt_d(w.end) \o ", " \o fmt_yyyy(w.end),
              generatedAt |-> clock]
  IN  digestOf(digestWindow(weekNumber, year))

\* saveDigest(digest) of the weekly-only scraper: data/digests/<id>.json
saveWeekDigest(dataDir, digest) ==
  [dataDir EXCEPT !.digests = (digest.id :> digest) @@ @]

\* updateIndex() of the weekly-only scraper
updateDigestsIndex(dataDir, clock) ==
  LET digests == listed(dataDir.digests)
      record(digest) ==
        [id |-> digest.id, title |-> digest.title, week |-> digest.week, year |-> digest.year,
         dateRange |-> digest.dateRange, totalArticles |-> digest.totalArticles,
         highlightCount |-> Len(digest.highlights), generatedAt |-> digest.generatedAt]
  IN  [lastUpdated |-> clock,
       digests |-> sortWith([k \in 1..Len(digests) |-> record(digests[k])], "weekly")]

\***************************************************************************
\* main(): one run of the scraper
\***************************************************************************

\* Largest value of --weeks the model draws.
MaxWeeks == 2

\* The command lines: a mode flag (none is daily) and --weeks n, where n = 0
\* stands for no --weeks argument, or one parseInt reads as 0 or NaN.  The
\* modes other than backfill never read config.weeks.
Argvs ==
  { [mode |-> m, weeks |-> 0] : m \in {"daily", "weekly", "monthly"} }
    \cup { [mode |-> "backfill", weeks |-> n] : n \in 0..MaxWeeks }

\* A parseArgs that reads the mode and leaves weeks at its default.
parseArgsWithoutWeeks(args) ==
  [mode |-> args.mode, weeks |-> DEFAULT_WEEKS_TO_BACKFILL]

parseArgs(args) ==
  [mode |-> args.mode,
   weeks |-> IF args.weeks = 0 THEN DEFAULT_WEEKS_TO_BACKFILL ELSE args.weeks]

\* The clock readings of the runs that follow the news of the feeds.
NewsNows ==
  { At(2, 5, 12, 0), At(2, 9, 6, 30), At(3, 1, 6, 30) }

NoDigest == [type |-> "none"]
NoWindow == [start |-> InvalidDate, end |-> InvalidDate]
EmptyDataDir == [daily |-> <<>>, weekly |-> <<>>, monthly |-> <<>>]
NoIndex == [lastUpdated |-> InvalidDate, daily |-> <<>>, weekly |-> <<>>, monthly |-> <<>>]

VARIABLES
  pc,        \* where main() stands
  argv,      \* the command line
  now,       \* the clock of the run
  world,     \* what each source serves
  config,    \* parseArgs()
  articles,  \* the fetched articles
  i,         \* the loop counter of the backfill loops
  refDate,   \* the date the period of the last digest was derived from
  window,    \* the (start, end) last passed to processArticles
  digest,    \* the digest last generated
  dataDir,   \* the digest files of data/daily, data/weekly, data/monthly
  index,     \* data/index.json
  publicDir, \* the digest pages of public/daily, public/weekly, public/monthly
  weekToDate \* the week-to-date articles of the front page

vars ==
  <<scoring, pc, argv, now, world, config, articles, i, refDate, window, digest, dataDir, index,
    publicDir, weekToDate>>

\* What main() in weekly mode leaves behind when it starts from an empty
\* data/ at time clock: the digest of the previous week and the index.
weeklyRun(served, clock) ==
  LET left(saved) == [at |-> clock, dataDir |-> saved, index |-> updateIndex(saved, clock)]
      run(weekInfo) ==
        left(saveDigest(EmptyDataDir,
                        generateWeeklyDigest(weekInfo.week, weekInfo.year,
                                             fetchAllFeeds(served, clock), clock),
                        "weekly"))
  IN  run(getWeekInfo(subWeeks(clock, 1)))

before(a, b) == a.day < b.day \/ (a.day = b.day /\ a.ms < b.ms)

\* What a run can find when it starts: an empty data/, or what a weekly run
\* at one of the times earlier left there.
EarlierRuns(served, earlier) ==
  { [at |-> InvalidDate, dataDir |-> EmptyDataDir, index |-> NoIndex] }
    \cup { weeklyRun(served, t) :
            t \in { e \in earlier : Len(fetchAllFeeds(served, e)) > 0 } }

InitWith(argvs, nows, worlds, earlier, tables) ==
  /\ scoring = tables
  /\ world \in worlds
  /\ \E run \in EarlierRuns(world, earlier) :
       /\ dataDir = run.dataDir
       /\ index = run.index
       /\ now \in { n \in nows : before(run.at, n) }
  /\ argv \in argvs
  /\ pc = "main"
  /\ config = parseArgs([mode |-> "daily", weeks |-> 0])
  /\ articles = <<>>
  /\ i = 0
  /\ refDate = InvalidDate
  /\ window = NoWindow
  /\ digest = NoDigest
  /\ publicDir = NoPages
  /\ weekToDate = <<>>

\* The runs that follow the news of the feeds, starting from an empty data/.
Init == InitWith(Argvs, NewsNows, Worlds, {}, ScoringTables(Variants, BaseContents))

\* A start of main that goes on to the mode's branch without articles too.
FetchWithoutExit ==
  /\ pc = "main"
  /\ config' = parseArgs(argv)
  /\ articles' = fetchAllFeeds(world, now)
  /\ pc' = parseArgs(argv).mode
  /\ UNCHANGED <<scoring, weekToDate, publicDir, argv, now, world, i, refDate, window, digest, dataDir, index>>

\* main, lines 480-498: parseArgs, fetchAllFeeds, exit(1) without articles.
Fetch ==
  /\ pc = "main"
  /\ config' = parseArgs(argv)
  /\ articles' = fetchAllFeeds(world, now)
  /\ pc' = IF Len(articles') = 0 THEN "exit1" ELSE parseArgs(argv).mode
  /\ UNCHANGED <<scoring, weekToDate, publicDir, argv, now, world, i, refDate, window, digest, dataDir, index>>

\* A digest is generated for the period of date and saved under subdir.
Generated(date, w, d, subdir) ==
  /\ refDate' = date
  /\ window' = w
  /\ digest' = d
  /\ dataDir' = saveDigest(dataDir, d, subdir)

\* case 'daily'
Daily ==
  /\ pc = "daily"
  /\ Generated(now, dailyWindow(now), generateDailyDigest(now, articles, now), "daily")
  /\ pc' = "updateIndex"
  /\ UNCHANGED <<scoring, weekToDate, publicDir, argv, now, world, config, articles, i, index>>

\* case 'weekly': the previous week
Weekly ==
  /\ pc = "weekly"
  /\ LET generate(lastWeekDate, weekInfo) ==
           Generated(lastWeekDate, weeklyWindow(weekInfo.week, weekInfo.year),
                     generateWeeklyDigest(weekInfo.week, weekInfo.year, articles, now),
                     "weekly")
     IN  generate(subWeeks(now, 1), getWeekInfo(subWeeks(now, 1)))
  /\ pc' = "updateIndex"
  /\ UNCHANGED <<scoring, weekToDate, publicDir, argv, now, world, config, articles, i, index>>

\* case 'monthly': the previous month
Monthly ==
  /\ pc = "monthly"
  /\ LET lastMonth == subMonths(now, 1)
     IN  Generated(lastMonth, monthlyWindow(lastMonth),
                   generateMonthlyDigest(lastMonth, articles, now), "monthly")
  /\ pc' = "updateIndex"
  /\ UNCHANGED <<scoring, weekToDate, publicDir, argv, now, world, config, articles, i, index>>

\* case 'backfill': entering the daily loop
Backfill ==
  /\ pc = "backfill"
  /\ i' = 0
  /\ pc' = "backfillDaily"
  /\ UNCHANGED <<scoring, weekToDate, publicDir, argv, now, world, config, articles, refDate, window, digest, dataDir, index>>

\* An iteration whose filter takes the articles of the day out of the fetched
\* list.
BackfillDailyConsuming ==
  /\ pc = "backfillDaily"
  /\ LET date == subDays(now, i)
     IN  /\ Generated(date, dailyWindow(date), generateDailyDigest(date, articles, now), "daily")
         /\ articles' = SelectSeq(articles,
                          LAMBDA a : ~isInRange(a.published, dailyWindow(date).start,
                                                dailyWindow(date).end))
  /\ IF i + 1 < 7
     THEN i' = i + 1 /\ pc' = "backfillDaily"
     ELSE i' = 0 /\ pc' = IF 0 < config.weeks THEN "backfillWeekly" ELSE "backfillMonthly"
  /\ UNCHANGED <<scoring, weekToDate, publicDir, argv, now, world, config, index>>

\* for (let i = 0; i < 7; i++): one iteration
BackfillDaily ==
  /\ pc = "backfillDaily"
  /\ LET date == subDays(now, i)
     IN  Generated(date, dailyWindow(date), generateDailyDigest(date, articles, now), "daily")
  /\ IF i + 1 < 7
     THEN i' = i + 1 /\ pc' = "backfillDaily"
     ELSE i' = 0 /\ pc' = IF 0 < config.weeks THEN "backfillWeekly" ELSE "backfillMonthly"
  /\ UNCHANGED <<scoring, weekToDate, publicDir, argv, now, world, config, articles, index>>

\* for (let i = 0; i < config.weeks; i++): one iteration
BackfillWeekly ==
  /\ pc = "backfillWeekly"
  /\ LET generate(date, weekInfo) ==
           Generated(date, weeklyWindow(weekInfo.week, weekInfo.year),
                     generateWeeklyDigest(weekInfo.week, weekInfo.year, articles, now),
                     "weekly")
     IN  generate(subWeeks(now, i), getWeekInfo(subWeeks(now, i)))
  /\ IF i + 1 < config.weeks
     THEN i' = i + 1 /\ pc' = "backfillWeekly"
     ELSE i' = 0 /\ pc' = "backfillMonthly"
  /\ UNCHANGED <<scoring, weekToDate, publicDir, argv, now, world, config, articles, index>>

\* for (let i = 0; i < 2; i++): one iteration
BackfillMonthly ==
  /\ pc = "backfillMonthly"
  /\ LET date == subMonths(now, i)
     IN  Generated(date, monthlyWindow(date),
                   generateMonthlyDigest(date, articles, now), "monthly")
  /\ IF i + 1 < 2
     THEN i' = i + 1 /\ pc' = "backfillMonthly"
     ELSE i' = 0 /\ pc' = "updateIndex"
  /\ UNCHANGED <<scoring, weekToDate, publicDir, argv, now, world, config, articles, index>>

\* await updateIndex(); process.exit(0)
UpdateIndex ==
  /\ pc = "updateIndex"
  /\ index' = updateIndex(dataDir, now)
  /\ pc' = "exit0"
  /\ UNCHANGED <<scoring, weekToDate, publicDir, argv, now, world, config, articles, i, refDate, window, digest, dataDir>>

\* The site is built after the run: build() of src/build/generate.js, its
\* digest pages and the week-to-date articles of its front page.
Build ==
  /\ pc = "exit0"
  /\ publicDir' = digestPages(index, dataDir)
  /\ weekToDate' = getWeekToDateArticles(index, dataDir, now)
  /\ pc' = "built"
  /\ UNCHANGED <<scoring, argv, now, world, config, articles, i, refDate, window, digest, dataDir, index>>

Next ==
  \/ Fetch
  \/ Daily
  \/ Weekly
  \/ Monthly
  \/ Backfill
  \/ BackfillDaily
  \/ BackfillWeekly
  \/ BackfillMonthly
  \/ UpdateIndex
  \/ Build

Spec == Init /\ [][Next]_vars

\***************************************************************************
\* The runs of the CalDays days from the first of January of CalYear on, at
\* the first and at the last millisecond of each day, with every source
\* serving its whole feed; data/ is empty, or as the weekly run of Monday
\* 2026-03-09 left it.
\***************************************************************************

CalYear == 2026
CalDays == 396

CalendarNows ==
  { [day |-> d, ms |-> t] :
    d \in daysFromCivil(CalYear, 1, 1)..(daysFromCivil(CalYear, 1, 1) + CalDays - 1),
    t \in {0, LastMs} }

CalendarArgvs ==
  { [mode |-> m, weeks |-> 0] : m \in {"daily", "weekly", "monthly"} }
    \cup { [mode |-> "backfill", weeks |-> n] : n \in {0, 1} }

FullWorld ==
  [k \in SourceKeys |->
     [ok |-> TRUE,
      items |-> IF k = SOURCES[3].key THEN BaseFeed(k) \o LaterFeed ELSE BaseFeed(k)]]

CalendarInit ==
  InitWith(CalendarArgvs, CalendarNows, {FullWorld}, {At(3, 9, 6, 30)},
           ScoringTables(Contents, CategoryInputs))

CalendarSpec == CalendarInit /\ [][Next]_vars

\***************************************************************************
\* The weekly-only scraper: the second program of src/scraper/index.js, from
\* line 574 on.  Its fetchFeed, calculateRelevance, categorizeArticle and
\* deduplicateArticles are those of the first program, and its processWeek
\* is processArticles with the two dates of the week added to the result.
\* Its main.
\***************************************************************************

\* The command lines of the weekly-only scraper: with or without --backfill.
WeeklyOnlyArgvs == { [mode |-> m, weeks |-> 0] : m \in {"daily", "backfill"} }

\* The runs of the days of the calendar, with every source serving its whole
\* feed or none serving any, and data/digests empty.
WeeklyOnlyInit ==
  /\ scoring = ScoringTables(Contents, CategoryInputs)
  /\ world \in {FullWorld, [k \in SourceKeys |-> [ok |-> FALSE, items |-> <<>>]]}
  /\ now \in CalendarNows
  /\ argv \in WeeklyOnlyArgvs
  /\ pc = "main"
  /\ config = parseArgs([mode |-> "daily", weeks |-> 0])
  /\ articles = <<>>
  /\ i = 0
  /\ refDate = InvalidDate
  /\ window = NoWindow
  /\ digest = NoDigest
  /\ dataDir = [digests |-> <<>>]
  /\ index = [lastUpdated |-> InvalidDate, digests |-> <<>>]
  /\ publicDir = NoPages
  /\ weekToDate = <<>>

\* main of the weekly-only scraper: fetchAllFeeds, exit(1) without articles
FetchWeeks ==
  /\ pc = "main"
  /\ articles' = fetchAllFeeds(world, now)
  /\ pc' = IF Len(articles') = 0 THEN "exit1"
           ELSE IF argv.mode = "backfill" THEN "backfillWeeks" ELSE "currentWeek"
  /\ i' = 0
  /\ UNCHANGED <<scoring, weekToDate, publicDir, argv, now, world, config, refDate, window, digest, dataDir, index>>

\* The digest of the week of date is generated and saved.
GeneratedWeek(date) ==
  LET weekInfo == getWeekInfoUTC(date)
  IN  /\ refDate' = date
      /\ window' = digestWindow(weekInfo.week, weekInfo.year)
      /\ digest' = generateDigest(weekInfo.week, weekInfo.year, articles, now)
      /\ dataDir' = saveWeekDigest(dataDir, digest')

\* else branch: the current week
CurrentWeek ==
  /\ pc = "currentWeek"
  /\ GeneratedWeek(now)
  /\ pc' = "updateDigestsIndex"
  /\ UNCHANGED <<scoring, weekToDate, publicDir, argv, now, world, config, articles, i, index>>

\* for (let i = 0; i < WEEKS_TO_BACKFILL; i++): one iteration
BackfillWeeks ==
  /\ pc = "backfillWeeks"
  /\ GeneratedWeek(subWeeks(now, i))
  /\ IF i + 1 < WEEKS_TO_BACKFILL
     THEN i' = i + 1 /\ pc' = "backfillWeeks"
     ELSE i' = 0 /\ pc' = "updateDigestsIndex"
  /\ UNCHANGED <<scoring, weekToDate, publicDir, argv, now, world, config, articles, index>>

\* await updateIndex(); main returns
UpdateDigestsIndex ==
  /\ pc = "updateDigestsIndex"
  /\ index' = updateDigestsIndex(dataDir, now)
  /\ pc' = "completed"
  /\ UNCHANGED <<scoring, weekToDate, publicDir, argv, now, world, config, articles, i, refDate, window, digest, dataDir>>

WeeklyOnlyNext ==
  \/ FetchWeeks
  \/ CurrentWeek
  \/ BackfillWeeks
  \/ UpdateDigestsIndex

WeeklyOnlySpec == WeeklyOnlyInit /\ [][WeeklyOnlyNext]_vars

\***************************************************************************
\* Properties of the scorer
\***************************************************************************

Excluded == [score |-> 0, reasons |-> <<"excluded">>]

\* C1: for every fetched article whose title matches an exclusion pattern,
\* calculateRelevance returns score 0 with reasons exactly ["excluded"],
\* whatever description and priority come with the title; and a title that
\* matches no pattern is not excluded, whatever the description contains.
ExclusionDominance ==
  \A k \in 1..Len(articles) :
    \A v \in { c \in DOMAIN relevanceOf : c.title = articles[k].title } :
      IF excludedTitle[articles[k].title]
      THEN relevanceOf[v] = Excluded
      ELSE relevanceOf[v].reasons # <<"excluded">>

\* A digest was generated from articles that include one of priority 1 with
\* an excluded title and a description that names a company and a
\* high-impact keyword; it scored 0, and so did the same title with the
\* description of another article.
ExclusionDominanceWitness ==
  /\ digest # NoDigest
  /\ \E k \in 1..Len(articles) :
       /\ excludedTitle[articles[k].title]
       /\ articles[k].priority = 1
       /\ includes(articles[k].description, "Nvidia")
       /\ includes(articles[k].description, "antitrust")
       /\ relevanceOf[contentOf(articles[k])] = Excluded
       /\ \E v \in DOMAIN relevanceOf :
            /\ v.title = articles[k].title
            /\ v.description # articles[k].description
            /\ relevanceOf[v] = Excluded

\***************************************************************************
\* Properties of the digest assembler.  They are stated of the digest last
\* generated, the articles it was generated from and the window it covers.
\***************************************************************************

Range(seq) == { seq[k] : k \in 1..Len(seq) }

\* The fetched articles that lie in the window, with their scores.
InWindow ==
  { scored(a) : a \in { b \in Range(articles) :
                          isInRange(b.published, window.start, window.end) } }

\* Those of them that reach the minimum score.
Qualifying == { a \in InWindow : a.relevanceScore >= 3 }

\* The full relevance-sorted, deduplicated article list of the window.
FullList == uniqueArticles(articles, window.start, window.end)

\* The articles of all byCategory buckets.
Bucketed == UNION { Range(digest.byCategory[c]) : c \in DOMAIN digest.byCategory }

NonIncreasing(seq) ==
  \A k \in 1..(Len(seq) - 1) : seq[k].relevanceScore >= seq[k + 1].relevanceScore

\* C2: every article in the highlights and in every byCategory bucket of a
\* digest has relevanceScore >= MIN_RELEVANCE_SCORE, which is 3, and that
\* score is the one calculateRelevance gives the article.
ThresholdInDigest ==
  digest # NoDigest =>
    /\ MIN_RELEVANCE_SCORE = 3
    /\ \A a \in Range(digest.highlights) \cup Bucketed :
         /\ a.relevanceScore >= MIN_RELEVANCE_SCORE
         /\ a.relevanceScore = relevanceOf[contentOf(a)].score

\* A digest with a highlight, also bucketed, that scores exactly 3, from a
\* window that holds an article with a score of 1 or 2.
ThresholdInDigestWitness ==
  /\ digest # NoDigest
  /\ \E a \in Range(digest.highlights) : a.relevanceScore = 3
  /\ \E a \in Bucketed : TRUE
  /\ \E a \in InWindow : a.relevanceScore \in 1..2

\* C3: highlights is the first min(10, totalArticles) elements of the full
\* relevance-sorted, deduplicated list of the window, and totalArticles is
\* the length of that list: the number of distinct signatures among the
\* qualifying articles of the window.
HighlightsArePrefix ==
  digest # NoDigest =>
    /\ digest.totalArticles = Len(FullList)
    /\ digest.totalArticles = Cardinality({ signatureOf[a.title] : a \in Qualifying })
    /\ Len(digest.highlights) = Min(10, digest.totalArticles)
    /\ digest.highlights = SubSeq(FullList, 1, Min(10, digest.totalArticles))

\* A digest of more than 10 articles, one of them dropped as a duplicate.
HighlightsArePrefixWitness ==
  /\ digest # NoDigest
  /\ digest.totalArticles > 10
  /\ Len(digest.highlights) = 10
  /\ Cardinality(Qualifying) > digest.totalArticles

\* C4: highlights and every byCategory bucket are ordered by relevanceScore
\* non-increasing, and a bucket lists its articles in the order of the full
\* list.
SortedByScore ==
  digest # NoDigest =>
    /\ NonIncreasing(digest.highlights)
    /\ \A c \in DOMAIN digest.byCategory :
         /\ NonIncreasing(digest.byCategory[c])
         /\ digest.byCategory[c]
              = SelectSeq(FullList, LAMBDA a : a \in Range(digest.byCategory[c]))

\* A digest whose highlights and one of whose buckets fall in score, from
\* articles fetched in another order.
SortedByScoreWitness ==
  /\ digest # NoDigest
  /\ Len(digest.highlights) >= 3
  /\ digest.highlights[1].relevanceScore > digest.highlights[Len(digest.highlights)].relevanceScore
  /\ \E c \in DOMAIN digest.byCategory :
       /\ Len(digest.byCategory[c]) >= 2
       /\ digest.byCategory[c][1].relevanceScore > digest.byCategory[c][2].relevanceScore
  /\ \E j, k \in 1..Len(articles) :
       /\ j < k
       /\ scored(articles[j]) \in Range(digest.highlights)
       /\ scored(articles[k]) \in Range(digest.highlights)
       /\ scored(articles[j]).relevanceScore < scored(articles[k]).relevanceScore

\* C5: byCategory partitions the categorized part of the full deduplicated
\* list: every article of byCategory[c] has category c, every article of the
\* full list with a category appears exactly once in the bucket of its
\* category and in no other bucket, also when it lies beyond the first 10,
\* an article without a category appears in no bucket, and no bucket is
\* empty.
CategoryPartition ==
  digest # NoDigest =>
    /\ \A c \in DOMAIN digest.byCategory :
         /\ digest.byCategory[c] # <<>>
         /\ \A a \in Range(digest.byCategory[c]) : a.category = c
    /\ Bucketed \subseteq Range(FullList)
    /\ \A k \in 1..Len(FullList) :
         \A c \in DOMAIN digest.byCategory :
           Cardinality({ j \in 1..Len(digest.byCategory[c]) :
                         digest.byCategory[c][j] = FullList[k] })
             = IF FullList[k].category = c THEN 1 ELSE 0
    /\ \A k \in 1..Len(FullList) :
         FullList[k].category # null => FullList[k].category \in DOMAIN digest.byCategory

\* A digest of more than 10 articles and several buckets: an article beyond
\* the first 10 is in a bucket, and a highlight without a category is in
\* none.
CategoryPartitionWitness ==
  /\ digest # NoDigest
  /\ Cardinality(DOMAIN digest.byCategory) >= 3
  /\ \E k \in 11..Len(FullList) :
       /\ FullList[k].category # null
       /\ FullList[k] \in Range(digest.byCategory[FullList[k].category])
  /\ \E a \in Range(digest.highlights) : a.category = null /\ a \notin Bucketed

\* The article lists deduplicateArticles is applied to here: the fetched
\* articles and the sorted qualifying articles of the window.
DedupInputs == { articles, relevantArticles(articles, window.start, window.end) }

\* C6: deduplicateArticles is idempotent: deduplicateArticles applied to its
\* own output returns that output.
DedupIdempotent ==
  \A x \in DedupInputs :
    deduplicateArticles(deduplicateArticles(x)) = deduplicateArticles(x)

\* A digest was generated from a list of which deduplicateArticles drops two
\* articles, repeats of two different articles.
DedupIdempotentWitness ==
  /\ digest # NoDigest
  /\ \E x \in DedupInputs :
       /\ Len(deduplicateArticles(x)) = Len(x) - 2
       /\ Cardinality({ signatureOf[a.title] : a \in Range(x) }) = Len(x) - 2
       /\ digest.totalArticles = Len(deduplicateArticles(x))

\***************************************************************************
\* Properties of the window calculator
\***************************************************************************

Kinds == {"daily", "weekly", "monthly"}

\* Two digests are of the same period: the same kind and the same day, the
\* same ISO week or the same month.
SamePeriod(d1, d2) ==
  /\ d1.type = d2.type
  /\ CASE d1.type = "daily" -> d1.date = d2.date
       [] d1.type = "weekly" -> d1.year = d2.year /\ d1.week = d2.week
       [] d1.type = "monthly" -> d1.year = d2.year /\ d1.month = d2.month

\* C7, as stated: whenever a digest is generated, every digest file in data/
\* of the same period has its id, and every digest file of another period,
\* of the same or of another kind, has another id.
IdEncodesPeriod ==
  [][digest' # NoDigest =>
       \A k \in Kinds : \A id \in DOMAIN dataDir[k] :
         (dataDir[k][id].id = digest'.id) <=> SamePeriod(dataDir[k][id], digest')]_vars

\* C7, amended: whenever a digest is generated, every digest file in data/
\* of the same period has its id, and every digest file of the same kind and
\* another period has another id.
IdEncodesPeriodOfKind ==
  [][digest' # NoDigest =>
       \A k \in Kinds : \A id \in DOMAIN dataDir[k] :
         /\ SamePeriod(dataDir[k][id], digest') => dataDir[k][id].id = digest'.id
         /\ (dataDir[k][id].id = digest'.id /\ k = digest'.type)
              => SamePeriod(dataDir[k][id], digest')]_vars

\* A backfill has generated the digest of October 2026 beside seven daily
\* digests and the digest of another month, and data/weekly holds the digest
\* of ISO week 10 of 2026: both have the id 26-10.
IdEncodesPeriodOfKindWitness ==
  /\ digest # NoDigest
  /\ digest.type = "monthly" /\ digest.month = 10 /\ digest.id = "26-10"
  /\ "26-10" \in DOMAIN dataDir.weekly
  /\ dataDir.weekly["26-10"].week = 10
  /\ "26-10" \in DOMAIN dataDir.monthly
  /\ Cardinality(DOMAIN dataDir.monthly) = 2
  /\ Cardinality(DOMAIN dataDir.daily) = 7

\* The digest a generator gives for the period of date, on the fetched
\* articles, when the clock reads clock.
Regenerated(kind, date, clock) ==
  CASE kind = "daily" -> generateDailyDigest(date, articles, clock)
    [] kind = "weekly" ->
         LET generate(weekInfo) ==
               generateWeeklyDigest(weekInfo.week, weekInfo.year, articles, clock)
         IN  generate(getWeekInfo(date))
    [] kind = "monthly" -> generateMonthlyDigest(date, articles, clock)

\* Reference dates of the period of the digest last generated: the first and
\* the last millisecond of its day, of its week or of its month.
DatesOfPeriod ==
  CASE digest.type = "daily" -> {startOfDay(refDate), endOfDay(refDate)}
    [] digest.type = "weekly" -> {window.start, window.end}
    [] digest.type = "monthly" -> {startOfMonth(refDate), endOfMonth(refDate)}

\* What two runs for the same period have to agree on.
ContentOf(d) == <<d.type, d.id, d.dateRange, d.highlights, d.byCategory, d.totalArticles>>

\* C8: generating the digest again for the period of the digest last
\* generated, on the same fetched articles, from another reference date of
\* the period and at another time, gives the same id, dateRange, highlights,
\* byCategory and totalArticles.
GenerationIdempotent ==
  digest # NoDigest =>
    \A date \in DatesOfPeriod : \A clock \in NewsNows :
      ContentOf(Regenerated(digest.type, date, clock)) = ContentOf(digest)

\* The daily digest of 2026-02-05 generated at 12:00 holds articles published
\* that morning; generated again at the end of that day from the same
\* articles it differs in generatedAt alone.
GenerationIdempotentWitness ==
  /\ digest.type = "daily"
  /\ refDate = At(2, 5, 12, 0)
  /\ \E k \in 1..Len(digest.highlights) :
       before(digest.highlights[k].published, refDate)
  /\ LET again(d) ==
           /\ d.generatedAt # digest.generatedAt
           /\ [d EXCEPT !.generatedAt = digest.generatedAt] = digest
     IN  again(Regenerated("daily", endOfDay(refDate), endOfDay(refDate)))

\* The day of the Monday of the week of a day (day 0, 1970-01-01, is a
\* Thursday).
MondayOf(day) == day - ((day + 3) % 7)

\* C9: generateWeeklyDigest, called with the week and year getWeekInfo gives
\* for the reference date, filters on the window from Monday 00:00:00.000 to
\* Sunday 23:59:59.999 of the week of the reference date, which lies inside
\* it.
WeeklyWindowIsIsoWeek ==
  digest.type = "weekly" =>
    /\ digest.week = getWeekInfo(refDate).week
    /\ digest.year = getWeekInfo(refDate).year
    /\ window.start = [day |-> MondayOf(refDate.day), ms |-> 0]
    /\ window.end = [day |-> MondayOf(refDate.day) + 6, ms |-> 23 * 3600000 + 59 * 60000 + 59999]
    /\ dateLE(window.start, refDate) /\ dateLE(refDate, window.end)
    /\ digest.totalArticles
         = Len(uniqueArticles(articles, [day |-> MondayOf(refDate.day), ms |-> 0],
                              [day |-> MondayOf(refDate.day) + 6, ms |-> LastMs]))

\* The weekly digest for the reference date 2027-01-01: week 53 of the ISO
\* week-year 2026, from Monday 2026-12-28 to Sunday 2027-01-03.
WeeklyWindowIsIsoWeekWitness ==
  /\ digest.type = "weekly"
  /\ refDate.day = daysFromCivil(2027, 1, 1)
  /\ getFullYear(refDate) = 2027
  /\ digest.week = 53 /\ digest.year = 2026
  /\ window.start.day = daysFromCivil(2026, 12, 28)
  /\ window.end.day = daysFromCivil(2027, 1, 3)

\* The ISO-8601 week-numbering year and week number of a day: those of the
\* Thursday of its week.
IsoYearOf(day) == civilFromDays(MondayOf(day) + 3).y
IsoWeekOf(day) == (MondayOf(day) + 3 - daysFromCivil(IsoYearOf(day), 1, 1)) \div 7 + 1

DigitOf(n) == SubSeq("0123456789", n + 1, n + 1)
Unpadded(n) == IF n < 10 THEN DigitOf(n) ELSE DigitOf(n \div 10) \o DigitOf(n % 10)

\* C10: the weekly id is "YY-W", W the unpadded ISO week number of the
\* reference date and YY the last two digits of its ISO week-numbering year;
\* for the reference date 2026-02-05 it is "26-6".
WeeklyIdFormat ==
  digest.type = "weekly" =>
    /\ digest.id = DigitOf((IsoYearOf(refDate.day) % 100) \div 10)
                     \o DigitOf(IsoYearOf(refDate.day) % 10)
                     \o "-" \o Unpadded(IsoWeekOf(refDate.day))
    /\ refDate.day = daysFromCivil(2026, 2, 5) => digest.id = "26-6"

\* The weekly digest for the reference date 2026-02-05, a Thursday, with the
\* articles of its week.
WeeklyIdFormatWitness ==
  /\ digest.type = "weekly"
  /\ refDate.day = daysFromCivil(2026, 2, 5)
  /\ getDay(refDate) = 4
  /\ digest.id = "26-6"
  /\ digest.totalArticles > 0

\***************************************************************************
\* Properties of main
\***************************************************************************

\* The day of the first of the month of a day.
FirstOfMonth(day) == day - (civilFromDays(day).d - 1)

\* C11: outside backfill, weekly mode generates the digest of the ISO week
\* before the week of now, monthly mode the digest of the calendar month
\* before the month of now, daily mode the digest of the day of now; the
\* weekly and the monthly window end strictly before now.
MostRecentlyCompleted ==
  (digest # NoDigest /\ argv.mode # "backfill") =>
    /\ digest.type = argv.mode
    /\ CASE argv.mode = "daily" ->
              /\ window = [start |-> [day |-> now.day, ms |-> 0],
                           end |-> [day |-> now.day, ms |-> LastMs]]
              /\ dateLE(window.start, now) /\ dateLE(now, window.end)
         [] argv.mode = "weekly" ->
              /\ window = [start |-> [day |-> MondayOf(now.day) - 7, ms |-> 0],
                           end |-> [day |-> MondayOf(now.day) - 1, ms |-> LastMs]]
              /\ digest.week = IsoWeekOf(now.day - 7)
              /\ digest.year = IsoYearOf(now.day - 7)
              /\ before(window.end, now)
         [] argv.mode = "monthly" ->
              /\ window = [start |-> [day |-> FirstOfMonth(FirstOfMonth(now.day) - 1), ms |-> 0],
                           end |-> [day |-> FirstOfMonth(now.day) - 1, ms |-> LastMs]]
              /\ digest.month = civilFromDays(FirstOfMonth(now.day) - 1).m
              /\ digest.year = civilFromDays(FirstOfMonth(now.day) - 1).y
              /\ before(window.end, now)

\* The monthly run of 2026-03-31, a day February does not have: the digest
\* of February 2026.
MostRecentlyCompletedWitness ==
  /\ argv.mode = "monthly"
  /\ digest.type = "monthly"
  /\ now.day = daysFromCivil(2026, 3, 31)
  /\ digest.month = 2 /\ digest.year = 2026
  /\ window.end.day = daysFromCivil(2026, 2, 28)
  /\ digest.totalArticles > 0

\* The yyyy-MM-dd form of a day, for years of four digits.
Pad2(n) == DigitOf(n \div 10) \o DigitOf(n % 10)
IsoDateOf(day) ==
  LET form(c) == Pad2(c.y \div 100) \o Pad2(c.y % 100) \o "-" \o Pad2(c.m) \o "-" \o Pad2(c.d)
  IN  form(civilFromDays(day))

\* The number of weeks the command line asks a backfill for.
WeeksAsked == IF argv.weeks = 0 THEN 4 ELSE argv.weeks

\* The digest files of a kind.
Stored(kind) == { dataDir[kind][id] : id \in DOMAIN dataDir[kind] }

\* C12: a backfill that starts from an empty data/ has, when its loops are
\* done, saved the digests of exactly the 7 days ending at the day of now,
\* of the N weeks ending at the week of now and of the 2 months ending at
\* the month of now, each on the articles fetched at its start.
BackfillPeriods ==
  (argv.mode = "backfill" /\ pc = "updateIndex" /\ index = NoIndex) =>
    /\ Cardinality(DOMAIN dataDir.daily) = 7
    /\ { d.date : d \in Stored("daily") } = { IsoDateOf(now.day - k) : k \in 0..6 }
    /\ \A k \in 0..6 : \E d \in Stored("daily") :
         /\ d.date = IsoDateOf(now.day - k)
         /\ d.totalArticles
              = Len(uniqueArticles(articles, [day |-> now.day - k, ms |-> 0],
                                   [day |-> now.day - k, ms |-> LastMs]))
    /\ Cardinality(DOMAIN dataDir.weekly) = WeeksAsked
    /\ { <<d.year, d.week>> : d \in Stored("weekly") }
         = { <<IsoYearOf(now.day - 7 * k), IsoWeekOf(now.day - 7 * k)>> :
             k \in 0..(WeeksAsked - 1) }
    /\ Cardinality({ MondayOf(now.day) - 7 * k : k \in 0..(WeeksAsked - 1) }) = WeeksAsked
    /\ \A k \in 0..(WeeksAsked - 1) : \E d \in Stored("weekly") :
         /\ d.year = IsoYearOf(now.day - 7 * k) /\ d.week = IsoWeekOf(now.day - 7 * k)
         /\ d.totalArticles
              = Len(uniqueArticles(articles, [day |-> MondayOf(now.day) - 7 * k, ms |-> 0],
                                   [day |-> MondayOf(now.day) - 7 * k + 6, ms |-> LastMs]))
    /\ Cardinality(DOMAIN dataDir.monthly) = 2
    /\ \A first \in {FirstOfMonth(now.day), FirstOfMonth(FirstOfMonth(now.day) - 1)} :
         \E d \in Stored("monthly") :
           /\ d.year = civilFromDays(first).y /\ d.month = civilFromDays(first).m
           /\ d.totalArticles
                = Len(uniqueArticles(articles, [day |-> first, ms |-> 0],
                                     [day |-> FirstOfMonth(first + 31) - 1, ms |-> LastMs]))

\* The backfill of 2026-03-31 without --weeks: 7 days, the 4 weeks from ISO
\* week 11 to ISO week 14 and the months February and March, with articles
\* in the digest of February.
BackfillPeriodsWitness ==
  /\ argv = [mode |-> "backfill", weeks |-> 0]
  /\ pc = "updateIndex" /\ index = NoIndex
  /\ now.day = daysFromCivil(2026, 3, 31)
  /\ DOMAIN dataDir.weekly = {"26-11", "26-12", "26-13", "26-14"}
  /\ DOMAIN dataDir.monthly = {"26-02", "26-03"}
  /\ Cardinality(DOMAIN dataDir.daily) = 7
  /\ dataDir.monthly["26-02"].totalArticles > 0

\***************************************************************************
\* Properties of the handling of timestamps
\***************************************************************************

\* The feed entries the sources serve in this run.
ServedEntries == UNION { Range(world[k].items) : k \in SourceKeys }

\* The links of the entries served with no timestamp at all, and of those
\* served with one that cannot be parsed.
WithoutTimestamp == { e.link : e \in { x \in ServedEntries : x.date = NoDate } }
Unparseable == { e.link : e \in { x \in ServedEntries : x.date = InvalidDate } }

\* The links of the articles shown in the digest last generated, and of
\* those its totalArticles counts.
DigestLinks == { a.link : a \in Range(digest.highlights) \cup Bucketed }
CountedLinks == { a.link : a \in Range(FullList) }

\* C13, as stated: an article served with a missing or an unparseable
\* timestamp is in no highlights and no byCategory bucket of any digest and
\* is not counted in its totalArticles.
NoTimestampExcluded ==
  digest # NoDigest =>
    (WithoutTimestamp \cup Unparseable) \cap (DigestLinks \cup CountedLinks) = {}

\* C13, amended: an article with an unparseable timestamp is in no digest
\* and not counted; an article served with no timestamp carries the time of
\* the fetch as its published timestamp, is in no digest whose window does
\* not contain that time, and is counted in a digest whose window contains
\* it when it reaches the minimum score and no qualifying article of the
\* window has its signature.
UnparseableExcluded ==
  digest # NoDigest =>
    /\ digest.totalArticles = Len(FullList)
    /\ Unparseable \cap (DigestLinks \cup CountedLinks) = {}
    /\ \A a \in { b \in Range(articles) : b.link \in WithoutTimestamp } :
         /\ a.published = now
         /\ a.link \in DigestLinks \cup CountedLinks
              => dateLE(window.start, now) /\ dateLE(now, window.end)
         /\ ( /\ dateLE(window.start, now) /\ dateLE(now, window.end)
              /\ relevanceOf[contentOf(a)].score >= 3
              /\ \A q \in Qualifying :
                   signatureOf[q.title] = signatureOf[a.title] => q.link = a.link )
              => a.link \in CountedLinks

\* A daily digest from a fetch in which CoinDesk serves an entry with no
\* timestamp and one with an unparseable timestamp: the first is among the
\* highlights, with the time of the fetch, the second is not in the digest.
UnparseableExcludedWitness ==
  /\ digest.type = "daily"
  /\ "cd/2" \in WithoutTimestamp /\ "cd/3" \in Unparseable
  /\ \E a \in Range(digest.highlights) : a.link = "cd/2" /\ a.published = now
  /\ \E a \in Range(articles) :
       a.link = "cd/3" /\ ~isValid(a.published) /\ relevanceOf[contentOf(a)].score >= 3
  /\ "cd/3" \notin DigestLinks \cup CountedLinks

\***************************************************************************
\* Properties of runs without qualifying articles
\***************************************************************************

\* The digest last generated shows and counts no article.
ZeroArticles ==
  /\ digest.highlights = <<>>
  /\ DOMAIN digest.byCategory = {}
  /\ digest.totalArticles = 0

NonEmptyStored(kind) ==
  { id \in DOMAIN dataDir[kind] : dataDir[kind][id].totalArticles > 0 }

\* C15: once updateIndex has written the index, it lists for each kind
\* exactly the stored digests with totalArticles > 0, each once, with the
\* length of the digest's highlights as highlightCount; and the digest pages
\* the site builder writes are pages of indexed digests.
IndexListsNonEmpty ==
  pc \in {"exit0", "built"} =>
    \A kind \in Kinds :
      /\ { r.id : r \in Range(index[kind]) } = NonEmptyStored(kind)
      /\ Len(index[kind]) = Cardinality(NonEmptyStored(kind))
      /\ \A r \in Range(index[kind]) :
           /\ r.totalArticles > 0
           /\ r.totalArticles = dataDir[kind][r.id].totalArticles
           /\ r.highlightCount = Len(dataDir[kind][r.id].highlights)
           /\ r.title = dataDir[kind][r.id].title
           /\ r.dateRange = dataDir[kind][r.id].dateRange
      /\ pc = "built" => publicDir[kind] = { r.id : r \in Range(index[kind]) }

\* After a backfill data/daily holds digests with and without articles; the
\* index lists the first, the site has pages for them and none for the
\* others; the digest of February has more articles than its 10 highlights.
IndexListsNonEmptyWitness ==
  /\ pc = "built"
  /\ argv.mode = "backfill"
  /\ \E id \in DOMAIN dataDir.daily :
       /\ dataDir.daily[id].totalArticles = 0
       /\ id \notin publicDir.daily
       /\ \A r \in Range(index.daily) : r.id # id
  /\ \E id \in DOMAIN dataDir.daily : id \in publicDir.daily
  /\ \E r \in Range(index.monthly) :
       /\ r.highlightCount = 10 /\ r.totalArticles > 10
       /\ r.id \in publicDir.monthly

\* The day of a record of index.daily written by a run at now.
DayOfRecord(r) == CHOOSE d \in (now.day - 6)..now.day : IsoDateOf(d) = r.date

Reverse(seq) == [k \in 1..Len(seq) |-> seq[Len(seq) + 1 - k]]

\* C16: in the index updateIndex has written the records of each kind are
\* sorted newest period first: daily by date, weekly by (ISO week-year,
\* week), monthly by (year, month), strictly descending; and sorting the
\* records from the opposite order gives the same index.
IndexNewestFirst ==
  pc \in {"exit0", "built"} =>
    /\ \A k \in 1..(Len(index.daily) - 1) :
         DayOfRecord(index.daily[k]) > DayOfRecord(index.daily[k + 1])
    /\ \A k \in 1..(Len(index.weekly) - 1) :
         \/ index.weekly[k].year > index.weekly[k + 1].year
         \/ /\ index.weekly[k].year = index.weekly[k + 1].year
            /\ index.weekly[k].week > index.weekly[k + 1].week
    /\ \A k \in 1..(Len(index.monthly) - 1) :
         \/ index.monthly[k].year > index.monthly[k + 1].year
         \/ /\ index.monthly[k].year = index.monthly[k + 1].year
            /\ index.monthly[k].month > index.monthly[k + 1].month
    /\ \A kind \in Kinds : sortWith(Reverse(index[kind]), kind) = index[kind]

\* The index of the backfill of 2027-01-06: week 1 of 2027 before weeks 53
\* and 51 of 2026, January 2027 before December 2026, and the daily digests
\* of January before that of 31 December, whose files are read in the order
\* of their names.
IndexNewestFirstWitness ==
  /\ pc = "exit0"
  /\ argv = [mode |-> "backfill", weeks |-> 0]
  /\ now.day = daysFromCivil(2027, 1, 6)
  /\ [k \in 1..Len(index.weekly) |-> index.weekly[k].id] = <<"27-1", "26-53", "26-51">>
  /\ [k \in 1..Len(index.monthly) |-> index.monthly[k].id] = <<"27-01", "26-12">>
  /\ Len(index.daily) = 4
  /\ index.daily[1].date = "2027-01-06" /\ index.daily[4].date = "2026-12-31"
  /\ readdir(dataDir.weekly) = <<"26-51", "26-52", "26-53", "27-1">>

\***************************************************************************
\* Properties of the deduplicator on the titles of the example
\***************************************************************************

TeslaUnveils == "Tesla unveils new robotaxi design"
UnveiledByTesla == "Robotaxi design unveiled by Tesla"
TeslaUnveilsAgain == "Tesla Unveils New Robotaxi Design!"

\* The titles of the qualifying articles of the window, and of those the
\* deduplicator keeps.
QualifyingTitles == { a.title : a \in Qualifying }
KeptTitles == { a.title : a \in Range(FullList) }

\* The position of the first article of a title in the sorted qualifying
\* list of the window.
FirstAt(title) ==
  LET at(sorted) == CHOOSE k \in 1..Len(sorted) :
                      /\ sorted[k].title = title
                      /\ \A m \in 1..(k - 1) : sorted[m].title # title
  IN  at(relevantArticles(articles, window.start, window.end))

\* C17, as stated: the two titles have the same signature, and of two
\* qualifying articles of a window that carry them deduplicateArticles keeps
\* the first only.
TeslaTitlesMerged ==
  (digest # NoDigest /\ {TeslaUnveils, UnveiledByTesla} \subseteq QualifyingTitles) =>
    /\ signatureOf[TeslaUnveils] = signatureOf[UnveiledByTesla]
    /\ Cardinality(KeptTitles \cap {TeslaUnveils, UnveiledByTesla}) = 1

\* C17, amended: the signatures of the two titles differ in their last
\* word, unveils and unveiled, and deduplicateArticles keeps both articles;
\* the title that differs from the first in case and punctuation only has
\* the signature of the first, and of those two the one that comes first in
\* the sorted list is kept.
TeslaTitlesKept ==
  /\ signatureOf[TeslaUnveils] = "design|robotaxi|tesla|unveils"
  /\ signatureOf[UnveiledByTesla] = "design|robotaxi|tesla|unveiled"
  /\ signatureOf[TeslaUnveilsAgain] = signatureOf[TeslaUnveils]
  /\ (digest # NoDigest /\ {TeslaUnveils, UnveiledByTesla} \subseteq QualifyingTitles)
       => {TeslaUnveils, UnveiledByTesla} \subseteq KeptTitles
  /\ (digest # NoDigest /\ {TeslaUnveils, TeslaUnveilsAgain} \subseteq QualifyingTitles)
       => KeptTitles \cap {TeslaUnveils, TeslaUnveilsAgain}
            = { IF FirstAt(TeslaUnveils) < FirstAt(TeslaUnveilsAgain)
                THEN TeslaUnveils ELSE TeslaUnveilsAgain }

\* A weekly digest of the week of 2 February 2026, in which the three titles
\* qualify: both titles of the example are kept, the repeat of the first is
\* dropped.
TeslaTitlesKeptWitness ==
  /\ digest.type = "weekly"
  /\ {TeslaUnveils, UnveiledByTesla, TeslaUnveilsAgain} \subseteq QualifyingTitles
  /\ KeptTitles \cap {TeslaUnveils, UnveiledByTesla, TeslaUnveilsAgain}
       = {TeslaUnveils, UnveiledByTesla}
  /\ \E a \in Range(digest.highlights) : a.title = UnveiledByTesla

\***************************************************************************
\* Properties of excluded titles in digests
\***************************************************************************

BlackFridayDeals == "Best Black Friday deals on laptops"

\* C18: an article whose title matches an exclusion pattern is in no
\* highlights and no byCategory bucket of a digest and is not among the
\* articles its totalArticles counts, whatever its description, its
\* priority and its date; the title of the example is such a title.
ExcludedTitleInNoDigest ==
  /\ excludedTitle[BlackFridayDeals]
  /\ digest # NoDigest =>
       /\ digest.totalArticles = Len(FullList)
       /\ \A a \in Range(digest.highlights) \cup Bucketed \cup Range(FullList) :
            ~excludedTitle[a.title]
       /\ \A a \in Range(articles) :
            excludedTitle[a.title] => a.link \notin DigestLinks \cup CountedLinks

\* A daily digest whose window holds the article of the example, of
\* priority 1 and with a description that names companies and high-impact
\* keywords: it is not in the digest, while an article whose description,
\* not its title, matches a pattern is.
ExcludedTitleInNoDigestWitness ==
  /\ digest.type = "daily"
  /\ \E a \in InWindow :
       /\ a.title = BlackFridayDeals /\ a.priority = 1
       /\ includes(a.description, "OpenAI") /\ includes(a.description, "acquisition")
       /\ a.link \notin DigestLinks \cup CountedLinks
  /\ \E a \in Range(digest.highlights) :
       /\ shouldExclude(a.description)
       /\ ~excludedTitle[a.title]

\***************************************************************************
\* Properties of the score
\***************************************************************************

Gpt5Article == [title |-> "OpenAI announces GPT-5, stock jumps", description |-> "", priority |-> 1]

\* C19: for every fetched title that matches no exclusion pattern, with
\* every description and with every priority of the feeds, the score is 2 x the
\* companies found in the haystack + 3 x the high-impact keywords found in it
\* + the relevant topics found in it + 1 for priority 1 + 2 x the companies
\* found in the title alone; a term of two tables counts in both.  The
\* article of the example scores at least 10 and is counted in the digest of
\* every window it lies in.
ScoreFormula ==
  /\ LET fetched == { articles[k].title : k \in 1..Len(articles) } IN
       \A v \in DOMAIN relevanceOf :
         (v.title \in fetched /\ ~excludedTitle[v.title]) =>
           relevanceOf[v].score
             = 2 * foundIn[v].companies + 3 * foundIn[v].keywords + foundIn[v].topics
               + (IF v.priority = 1 THEN 1 ELSE 0) + 2 * foundIn[v].inTitle
  /\ relevanceOf[Gpt5Article].score >= 10
  /\ foundIn[Gpt5Article].companies >= 1 /\ foundIn[Gpt5Article].keywords >= 2
  /\ (digest # NoDigest /\ \E a \in InWindow : contentOf(a) = Gpt5Article)
       => \E a \in Range(FullList) : contentOf(a) = Gpt5Article

\* A daily digest that shows the article of the example with score 11:
\* OpenAI counts as a company, as a keyword and in the title, GPT-5 as a
\* keyword, and the priority adds 1.  With the long description the same
\* title scores 2 more, for Nvidia within the first 500 characters, and
\* nothing for antitrust behind them.
ScoreFormulaWitness ==
  /\ digest.type = "daily"
  /\ \E a \in Range(digest.highlights) :
       /\ contentOf(a) = Gpt5Article
       /\ a.relevanceScore = 11
       /\ foundIn[contentOf(a)] = [companies |-> 1, keywords |-> 2, topics |-> 0, inTitle |-> 1]
  /\ \E v \in DOMAIN relevanceOf :
       /\ v.title = Gpt5Article.title /\ v.priority = 1 /\ Len(v.description) > 500
       /\ includes(v.description, "antitrust")
       /\ relevanceOf[v].score = 13
       /\ foundIn[v] = [companies |-> 2, keywords |-> 2, topics |-> 0, inTitle |-> 1]


\***************************************************************************
\* Properties of fetchAllFeeds
\***************************************************************************

PositionOfSource(key) == CHOOSE k \in 1..Len(SOURCES) : SOURCES[k].key = key

ArticlesOf(key) == SelectSeq(articles, LAMBDA a : a.sourceKey = key)

LinksOf(seq) == [k \in 1..Len(seq) |-> seq[k].link]

Failing == { k \in SourceKeys : ~world[k].ok }

\* C20: a source whose feed fails contributes no article and takes none of
\* the other sources away: once fetched, the articles of every source that
\* answered are its entries, in the feed's order, the articles of a
\* failing source are none, the sources follow each other in the order of
\* SOURCES, and the run ends with exit code 1 exactly when the merged
\* list is empty.
FetchFailureIsolated ==
  pc # "main" =>
    /\ \A key \in SourceKeys :
         /\ LinksOf(ArticlesOf(key)) =
              (IF world[key].ok THEN LinksOf(world[key].items) ELSE <<>>)
         /\ \A k \in 1..Len(ArticlesOf(key)) :
              /\ ArticlesOf(key)[k].title = world[key].items[k].title
              /\ ArticlesOf(key)[k].source = SOURCES[PositionOfSource(key)].name
    /\ \A a, b \in 1..Len(articles) :
         a < b => PositionOfSource(articles[a].sourceKey)
                    <= PositionOfSource(articles[b].sourceKey)
    /\ \A k \in 1..Len(articles) : articles[k].sourceKey \in SourceKeys
    /\ (pc = "exit1") <=> (Len(articles) = 0)

\* A weekly run in which the first source fails and the two behind it
\* answer in full ends with a digest made of their articles.
FetchFailureIsolatedWitness ==
  /\ pc = "exit0"
  /\ argv.mode = "weekly"
  /\ Failing = {SOURCES[1].key}
  /\ \A k \in 2..Len(SOURCES) :
       /\ Len(world[SOURCES[k].key].items) = Len(BaseFeed(SOURCES[k].key))
       /\ Len(ArticlesOf(SOURCES[k].key)) = Len(BaseFeed(SOURCES[k].key))
  /\ Len(SOURCES) >= 3
  /\ digest.totalArticles > 0

\***************************************************************************
\* Properties of deduplicateArticles
\***************************************************************************

\* The positions of x whose article no earlier article shares the signature of.
FirstOfSignature(x) ==
  { k \in 1..Len(x) :
      \A j \in 1..(k - 1) : signatureOf[x[j].title] # signatureOf[x[k].title] }

\* C21: deduplicateArticles returns a subsequence of its input: the articles
\* that no earlier article of the input shares the signature of, and only
\* those, in the order of the input; no two of them have one signature.
DedupSubsequence ==
  \A x \in DedupInputs :
    LET holds(u) ==
          /\ u = AtPositions(x, FirstOfSignature(x))
          /\ \A a, b \in 1..Len(u) :
               a # b => signatureOf[u[a].title] # signatureOf[u[b].title]
    IN  holds(deduplicateArticles(x))

\* A digest was generated from a sorted list in which an article is dropped
\* as a repeat and articles behind it are kept.
DedupSubsequenceWitness ==
  /\ digest # NoDigest
  /\ LET check(x) ==
           /\ \E k \in 2..(Len(x) - 1) :
                /\ k \notin FirstOfSignature(x)
                /\ k + 1 \in FirstOfSignature(x)
           /\ digest.totalArticles = Cardinality(FirstOfSignature(x))
           /\ digest.totalArticles < Len(x)
     IN  check(relevantArticles(articles, window.start, window.end))

\***************************************************************************
\* Properties of processArticles: which instance of a story survives
\***************************************************************************

\* The positions of the fetched list whose article lies in the window and
\* reaches the minimum score.
QualifyingPositions ==
  { p \in 1..Len(articles) :
      /\ isInRange(articles[p].published, window.start, window.end)
      /\ scored(articles[p]).relevanceScore >= 3 }

\* Those of them whose article the deduplicated list of the digest holds.
SurvivingPositions ==
  { p \in QualifyingPositions : scored(articles[p]) \in Range(FullList) }

\* C22: in processArticles the survivor of deduplication is the highest
\* scoring instance of its story: for every qualifying article of the window
\* that deduplication removed, the deduplicated list of the digest holds an
\* article of the same signature that scores higher, or scores the same and
\* came earlier in the fetched list.
SurvivorScoresHighest ==
  digest # NoDigest =>
    /\ digest.totalArticles = Cardinality(SurvivingPositions)
    /\ \A p \in QualifyingPositions \ SurvivingPositions :
         \E s \in SurvivingPositions :
           /\ signatureOf[articles[s].title] = signatureOf[articles[p].title]
           /\ \/ scored(articles[s]).relevanceScore > scored(articles[p]).relevanceScore
              \/ /\ scored(articles[s]).relevanceScore = scored(articles[p]).relevanceScore
                 /\ s < p

\* A digest whose window holds a story three times: the instance that is
\* kept scores higher than an instance fetched before it and the same as an
\* instance fetched after it.
SurvivorScoresHighestWitness ==
  /\ digest # NoDigest
  /\ \E s \in SurvivingPositions :
       /\ \E p \in QualifyingPositions \ SurvivingPositions :
            /\ p < s
            /\ signatureOf[articles[p].title] = signatureOf[articles[s].title]
            /\ scored(articles[p]).relevanceScore < scored(articles[s]).relevanceScore
       /\ scored(articles[s]) \in Range(digest.highlights)
  /\ \E s \in SurvivingPositions :
       \E p \in QualifyingPositions \ SurvivingPositions :
            /\ p > s
            /\ signatureOf[articles[p].title] = signatureOf[articles[s].title]
            /\ scored(articles[p]).relevanceScore = scored(articles[s]).relevanceScore

\***************************************************************************
\* Properties of the reasons
\***************************************************************************

FirstFive(seq) == IF Len(seq) <= 5 THEN seq ELSE SubSeq(seq, 1, 5)

\* C23: for every fetched title that matches no exclusion pattern, with
\* every description and with every priority of the feeds, the reasons are at most 5,
\* hold no string twice and are the first 5 of the terms found, in the order
\* found: the companies in table order, then the high-impact keywords not yet
\* among them, then the topics not yet among them; the priority and the
\* companies of the title add none, and the article carries them as
\* matchedKeywords.
ReasonsFirstFive ==
  /\ LET fetched == { articles[k].title : k \in 1..Len(articles) } IN
       \A v \in DOMAIN relevanceOf :
         (v.title \in fetched /\ ~excludedTitle[v.title]) =>
           LET reasons == relevanceOf[v].reasons IN
             /\ Len(reasons) <= 5
             /\ \A a, b \in 1..Len(reasons) : a # b => reasons[a] # reasons[b]
             /\ reasons = FirstFive(mentionedIn[v])
  /\ digest # NoDigest =>
       \A a \in Range(digest.highlights) :
         a.matchedKeywords = FirstFive(mentionedIn[contentOf(a)])

\* A digest that shows an article of which seven terms are found, antitrust
\* as a keyword and as a topic, with the first five of them as its
\* matchedKeywords, and the article of
\* priority 1 whose title names OpenAI, a company and a high-impact keyword,
\* and GPT-5: its reasons are those two.
ReasonsFirstFiveWitness ==
  /\ digest # NoDigest
  /\ \E a \in Range(digest.highlights) :
       /\ mentionedIn[contentOf(a)]
            = <<"nvidia", "intel", "amd", "antitrust", "chip", "gpu", "lawsuit">>
       /\ foundIn[contentOf(a)] = [companies |-> 3, keywords |-> 1, topics |-> 4, inTitle |-> 3]
       /\ a.matchedKeywords = <<"nvidia", "intel", "amd", "antitrust", "chip">>
  /\ \E a \in Range(digest.highlights) :
       /\ contentOf(a) = Gpt5Article
       /\ foundIn[contentOf(a)] = [companies |-> 1, keywords |-> 2, topics |-> 0, inTitle |-> 1]
       /\ a.matchedKeywords = <<"openai", "gpt-5">>

\***************************************************************************
\* Properties of categorizeArticle
\***************************************************************************

\* The categories whose count is the highest of counts.
Highest(counts) ==
  { k \in 1..Len(counts) : \A j \in 1..Len(counts) : counts[j] <= counts[k] }

\* The first category of the highest count, and none when every count is 0.
FirstHighest(counts) ==
  IF \A k \in 1..Len(counts) : counts[k] = 0 THEN null
  ELSE CATEGORIES[CHOOSE k \in Highest(counts) : \A j \in Highest(counts) : k <= j].key

\* C24: categorizeArticle returns the category of the highest number of
\* keywords found in the title, a space and the whole description, the first
\* in the order of CATEGORIES when several have that number, and null when
\* no keyword of any category is found; the priority, the score and the
\* exclusion of the title play no part.  Stated, at the end of a run, of
\* every fetched title and description under every priority, and of the
\* category of every highlight of every digest.
CategoryOfHighestCount ==
  /\ pc = "exit0" =>
     LET fetched == { [title |-> articles[k].title,
                       description |-> articles[k].description] :
                      k \in 1..Len(articles) }
     IN  \A c \in DOMAIN categoryOf :
           [title |-> c.title, description |-> c.description] \in fetched =>
             /\ categoryOf[c] = FirstHighest(hitsOf[c])
             /\ categoryOf[c] = categoryOf[[c EXCEPT !.priority = 1]]
  /\ digest # NoDigest =>
       \A a \in Range(digest.highlights) : a.category = FirstHighest(hitsOf[contentOf(a)])

\* A digest that shows an article of which three categories have one keyword
\* each under the first of them and counts an article without a keyword of
\* any category, which is in no bucket, made from articles of which one has an excluded title
\* and a category, and one the category of the keywords that lie behind the
\* first 500 characters of its description, which the score does not read.
CategoryOfHighestCountWitness ==
  /\ digest # NoDigest
  /\ \E a \in Range(digest.highlights) :
       /\ hitsOf[contentOf(a)] = <<0, 1, 0, 0, 0, 1, 1, 0>>
       /\ a.category = CATEGORIES[2].key
       /\ a.category \in DOMAIN digest.byCategory
  /\ \E a \in Range(FullList) :
       /\ \A k \in 1..Len(CATEGORIES) : hitsOf[contentOf(a)][k] = 0
       /\ a.category = null
       /\ a \notin Bucketed
  /\ \E k \in 1..Len(articles) :
       /\ excludedTitle[articles[k].title]
       /\ categoryOf[contentOf(articles[k])] = CATEGORIES[1].key
       /\ hitsOf[contentOf(articles[k])][1] = 2
  /\ \E k \in 1..Len(articles) :
       /\ Len(articles[k].description) > 500
       /\ relevanceOf[contentOf(articles[k])].score = 0
       /\ hitsOf[contentOf(articles[k])] = <<0, 1, 0, 1, 0, 2, 0, 0>>
       /\ categoryOf[contentOf(articles[k])] = CATEGORIES[6].key

\***************************************************************************
\* Properties of the window filter
\***************************************************************************

Earlier(a, b) == a.day < b.day \/ (a.day = b.day /\ a.ms < b.ms)

\* The fetched articles whose published is a time from window.start to
\* window.end, both included, with their scores.
FromStartToEnd ==
  { scored(articles[k]) :
      k \in { j \in 1..Len(articles) :
                /\ articles[j].published.ms >= 0
                /\ ~Earlier(articles[j].published, window.start)
                /\ ~Earlier(window.end, articles[j].published) } }

\* C25: the window filter includes both ends: the articles of a digest are
\* those published from window.start to window.end, the two instants
\* included, that reach the minimum score, one for each signature; every
\* highlight and every bucketed article is published in that range.
WindowInclusive ==
  digest # NoDigest =>
    /\ \A a \in Range(digest.highlights) \cup Bucketed :
         \E b \in FromStartToEnd : b = a
    /\ digest.totalArticles
         = Cardinality({ signatureOf[a.title] :
                         a \in { b \in FromStartToEnd : b.relevanceScore >= 3 } })

\* A weekly digest that shows an article published at the first millisecond
\* of its Monday and an article published at the last millisecond of its
\* Sunday.
WindowInclusiveWitness ==
  /\ digest.type = "weekly"
  /\ window.start.ms = 0 /\ window.end.ms = LastMs
  /\ window.end.day = window.start.day + 6
  /\ \E a \in Range(digest.highlights) : a.published = window.start
  /\ \E a \in Range(digest.highlights) : a.published = window.end

\***************************************************************************
\* Properties of a backfill: the periods are generated independently
\***************************************************************************

\* The digest of the period of a stored digest, generated on its own from the
\* list as fetchAllFeeds returned it.
GeneratedAlone(d) ==
  LET generate(fetched) ==
        CASE d.type = "daily" ->
               LET ofDay(k) == generateDailyDigest([day |-> now.day - k, ms |-> 0], fetched, now)
               IN  ofDay(CHOOSE k \in 0..6 : generateDayId([day |-> now.day - k, ms |-> 0]) = d.id)
          [] d.type = "weekly" -> generateWeeklyDigest(d.week, d.year, fetched, now)
          [] d.type = "monthly" ->
               generateMonthlyDigest([day |-> daysFromCivil(d.year, d.month, 1), ms |-> 0],
                                     fetched, now)
  IN  generate(fetchAllFeeds(world, now))

BackfillDone == argv.mode = "backfill" /\ pc = "exit0"

StoredIndependently ==
  /\ pc # "main" => articles = fetchAllFeeds(world, now)
  /\ BackfillDone =>
       \A kind \in {"daily", "weekly", "monthly"} : \A d \in Stored(kind) :
         /\ d.type = kind
         /\ ContentOf(d) = ContentOf(GeneratedAlone(d))
         /\ d.title = GeneratedAlone(d).title

WindowOf(kind, date) ==
  CASE kind = "daily" -> dailyWindow(date)
    [] kind = "weekly" ->
         LET of(weekInfo) == weeklyWindow(weekInfo.week, weekInfo.year)
         IN  of(getWeekInfo(date))
    [] kind = "monthly" -> monthlyWindow(date)

\* The millisecond after and the millisecond before an instant.
MsAfter(t) == IF t.ms = LastMs THEN [day |-> t.day + 1, ms |-> 0] ELSE [day |-> t.day, ms |-> t.ms + 1]
MsBefore(t) == IF t.ms = 0 THEN [day |-> t.day - 1, ms |-> LastMs] ELSE [day |-> t.day, ms |-> t.ms - 1]

\* The window of date holds date, is the window of each of its days at their
\* first and last milliseconds, and ends the millisecond before the
\* next window starts and starts the millisecond after the one before ends.
Tiles(kind, date) ==
  LET holds(w) ==
        /\ ~Earlier(date, w.start) /\ ~Earlier(w.end, date)
        /\ \A day \in w.start.day..w.end.day : \A ms \in {0, LastMs} :
             WindowOf(kind, [day |-> day, ms |-> ms]) = w
        /\ WindowOf(kind, MsAfter(w.end)).start = MsAfter(w.end)
        /\ WindowOf(kind, MsBefore(w.start)).end = MsBefore(w.start)
  IN  holds(WindowOf(kind, date))

\* The links of the articles a digest shows.
LinksShown(d) ==
  { a.link : a \in Range(d.highlights)
                 \cup UNION { Range(d.byCategory[c]) : c \in DOMAIN d.byCategory } }

\* C27: the windows of a kind tile time: for every time a backfill, which
\* generates the three kinds, starts at and every kind, the window of that time holds it, every instant of the window
\* has that window, and the windows before and after it adjoin it to the
\* millisecond, across the turn of the year too; and no article is shown in
\* two digests of one kind that a run has saved.
WindowsTile ==
  /\ (pc = "main" /\ argv.mode = "backfill") => \A kind \in Kinds : Tiles(kind, now)
  /\ pc = "exit0" =>
       \A kind \in Kinds : \A d, e \in { s \in Stored(kind) : s.generatedAt = now } :
         d # e => LinksShown(d) \cap LinksShown(e) = {}

\* A backfill of 2027-01-03, the Sunday of week 53 of 2026, has saved the
\* digests of that week and of the week before, of December and of January,
\* and of seven days of both years, with articles shown in three of the days,
\* in both weeks and in both months.
WindowsTileWitness ==
  /\ pc = "exit0"
  /\ argv.mode = "backfill"
  /\ now.day = daysFromCivil(2027, 1, 3)
  /\ WindowOf("weekly", now).start.day = daysFromCivil(2026, 12, 28)
  /\ WindowOf("weekly", MsAfter(WindowOf("weekly", now).end)).start.day
       = daysFromCivil(2027, 1, 4)
  /\ \A kind \in Kinds :
       Cardinality({ d \in Stored(kind) : d.generatedAt = now /\ LinksShown(d) # {} })
         >= (IF kind = "daily" THEN 3 ELSE 2)


\***************************************************************************
\* The order of saveDigest and updateIndex in main
\***************************************************************************

\* main stands before a saveDigest call.
Saving ==
  pc \in {"daily", "weekly", "monthly", "backfillDaily", "backfillWeekly", "backfillMonthly"}

IndexWritten == pc \in {"exit0", "built"}

\* A step of main from a saveDigest call writes the file of the generated
\* digest's kind and id and no other file, and leaves the index alone.
SaveStep ==
  /\ digest'.generatedAt = now
  /\ dataDir'[digest'.type][digest'.id] = digest'
  /\ \A kind \in Kinds :
       /\ DOMAIN dataDir'[kind] =
            DOMAIN dataDir[kind] \cup (IF kind = digest'.type THEN {digest'.id} ELSE {})
       /\ \A id \in DOMAIN dataDir[kind] :
            (kind # digest'.type \/ id # digest'.id) => dataDir'[kind][id] = dataDir[kind][id]
  /\ index' = index

\* The index is written by the step from the updateIndex call alone, from
\* the files as the saves left them.
IndexStep ==
  /\ pc = "updateIndex" /\ pc' = "exit0"
  /\ index.lastUpdated # now
  /\ index' = updateIndex(dataDir, now)

\* What the index holds once it is written: the record of every stored
\* digest with articles, those saved in this run among them.
IndexReflectsSaves ==
  /\ index = updateIndex(dataDir, now)
  /\ \A kind \in Kinds : \A d \in Stored(kind) :
       (d.generatedAt = now /\ d.totalArticles > 0) =>
         \E r \in Range(index[kind]) :
           /\ r.id = d.id
           /\ r.totalArticles = d.totalArticles
           /\ r.highlightCount = Len(d.highlights)

\* C28: in a run of main that fetched an article, every saveDigest comes
\* before updateIndex and updateIndex runs once: a save writes the file of
\* its digest's kind and id, replacing a stored one entirely, and no other;
\* no file changes after the saves; the index changes in the one step of
\* updateIndex, after which it is the index of the stored files and lists
\* every digest with articles saved in the run.
IndexAfterSaves ==
  /\ [][/\ Saving => SaveStep
        /\ ~Saving => dataDir' = dataDir
        /\ index' # index => IndexStep
        /\ pc = "updateIndex" => IndexStep]_vars
  /\ [](IndexWritten => IndexReflectsSaves)
  /\ [](~IndexWritten => index.lastUpdated # now)

\* The weekly run of Tuesday 2026-03-10 finds the digest of week 10 the run
\* of the day before saved, and the index of that run; when it calls
\* updateIndex the file of week 10 holds the digest it generated.
IndexAfterSavesWitness ==
  /\ pc = "updateIndex"
  /\ argv.mode = "weekly"
  /\ now = [day |-> daysFromCivil(2026, 3, 10), ms |-> 0]
  /\ index.lastUpdated = At(3, 9, 6, 30)
  /\ [k \in 1..Len(index.weekly) |-> index.weekly[k].id] = <<"26-10">>
  /\ DOMAIN dataDir.weekly = {"26-10"}
  /\ dataDir.weekly["26-10"] = digest
  /\ digest.generatedAt = now
  /\ digest.totalArticles > 0


\***************************************************************************
\* The week-to-date articles of the site builder
\***************************************************************************

\* The stored daily digests of the week of now up to now.
DailiesToDate ==
  { d \in Stored("daily") :
      /\ d.totalArticles > 0
      /\ dateLE(startOfWeek(now), digestDateOf(d.id)) /\ dateLE(digestDateOf(d.id), now) }

\* The title keys of the first five highlights of those digests.
KeysToDate ==
  { titleKey(a.title) : a \in UNION { Range(slice(d.highlights, 5)) : d \in DailiesToDate } }

\* C29: for the digests the scraper has written, getWeekToDateArticles
\* returns one article for each title key among the first five highlights of
\* the daily digests of the current week, ordered by relevanceScore
\* descending and, among equal scores, by digest date newest first.
WeekToDateByScore ==
  pc = "built" =>
    /\ { titleKey(a.title) : a \in Range(weekToDate) } = KeysToDate
    /\ Len(weekToDate) = Cardinality(KeysToDate)
    /\ \A k \in 1..(Len(weekToDate) - 1) :
         \/ weekToDate[k].relevanceScore > weekToDate[k + 1].relevanceScore
         \/ /\ weekToDate[k].relevanceScore = weekToDate[k + 1].relevanceScore
            /\ dateLE(weekToDate[k + 1].digestDate, weekToDate[k].digestDate)


\* The backfill of Thursday 2026-02-05 with TechCrunch and Engadget down: no
\* stored highlight has a property score, and the articles come by day,
\* Thursday's two of score 5 before Wednesday's of 19 and 11 and Tuesday's
\* of 12.
WeekToDateByScoreWitness ==
  /\ pc = "built"
  /\ argv.mode = "backfill"
  /\ now = At(2, 5, 12, 0)
  /\ \A a \in Range(weekToDate) : ~hasScore(a)
  /\ [k \in 1..Len(weekToDate) |-> weekToDate[k].relevanceScore] = <<5, 5, 19, 11, 12>>
  /\ [k \in 1..Len(weekToDate) |-> weekToDate[k].dayLabel] = <<"Thu", "Thu", "Wed", "Wed", "Tue">>


\***************************************************************************
\* The week the weekly-only scraper processes
\***************************************************************************

\* C30: a run of the weekly-only scraper without --backfill filters on a
\* window from a Monday 00:00:00.000 to the Sunday after it 23:59:59.999
\* that contains now, and the week number of the digest, of its id and of
\* its title is the ISO week number of that window.
CurrentWeekProcessed ==
  (pc = "updateDigestsIndex" /\ argv.mode # "backfill") =>
    /\ getDay(window.start) = 1 /\ window.start.ms = 0
    /\ window.end = [day |-> window.start.day + 6, ms |-> LastMs]
    /\ dateLE(window.start, now) /\ dateLE(now, window.end)
    /\ digest.week = getISOWeek(window.start)
    /\ digest.id = "week-" \o String(getISOWeek(window.start)) \o "-" \o String(digest.year)
    /\ digest.title = "Week " \o String(getISOWeek(window.start)) \o ", " \o String(digest.year)

\* The run of Thursday 2026-02-05, a day of ISO week 6: the digest is that
\* of week 6 and its window is the week that starts with Monday 2026-02-09.
CurrentWeekProcessedWitness ==
  /\ pc = "updateDigestsIndex"
  /\ argv.mode # "backfill"
  /\ now = [day |-> daysFromCivil(2026, 2, 5), ms |-> LastMs]
  /\ getISOWeek(now) = 6
  /\ digest.id = "week-6-2026"
  /\ digest.title = "Week 6, 2026"
  /\ window.start = [day |-> daysFromCivil(2026, 2, 9), ms |-> 0]
  /\ window.end = [day |-> daysFromCivil(2026, 2, 15), ms |-> LastMs]
  /\ getISOWeek(window.start) = 7
  /\ digest.weekStart = "2026-02-09"
  /\ DOMAIN dataDir.digests = {"week-6-2026"}

=============================================================================
